---- MODULE Spec2Model ----
(***************************************************************************)
(* Model of the YPBank transaction tools: the TxData record, the binary,   *)
(* CSV and text codecs of the lib crate, the format dispatch (io::reader,  *)
(* io::writer) and the two command line programs cli-converter and         *)
(* cli-comparer.                                                           *)
(*                                                                         *)
(* A Rust String and a file's content are both modelled as a sequence of   *)
(* bytes (0..255); a String is always valid UTF-8.  Integers of the model  *)
(* stay below 2^31; u64/i64 wire encodings are computed byte by byte.      *)
(***************************************************************************)
EXTENDS Integers, Sequences, FiniteSets, TLC

(***************************************************************************)
(* Bounds of the model.                                                    *)
(***************************************************************************)
\* longest record sequence fed to the programs and to the *_many encoders
MaxTxns == 2
\* longest description (in characters) of the records fed to the codecs
MaxDescLen == 3
\* longest run of decimal digits the model parses (values stay below 2^31)
MaxDigits == 9

(***************************************************************************)
(* Characters the code names.                                              *)
(***************************************************************************)
LF == 10
CR == 13
SPACE == 32
QUOTE == 34
HASH == 35
PLUS == 43
COMMA == 44
MINUS == 45
DIGIT0 == 48
COLON == 58

CSV_HEADER_LINE == <<84, 88, 95, 73, 68, 44, 84, 88, 95, 84, 89, 80, 69, 44, 70, 82, 79, 77, 95, 85, 83, 69, 82, 95, 73, 68, 44, 84, 79, 95, 85, 83, 69, 82, 95, 73, 68, 44, 65, 77, 79, 85, 78, 84, 44, 84, 73, 77, 69, 83, 84, 65, 77, 80, 44, 83, 84, 65, 84, 85, 83, 44, 68, 69, 83, 67, 82, 73, 80, 84, 73, 79, 78>>
K_TX_ID == <<84, 88, 95, 73, 68>>  \* "TX_ID"
K_TX_TYPE == <<84, 88, 95, 84, 89, 80, 69>>  \* "TX_TYPE"
K_FROM_USER_ID == <<70, 82, 79, 77, 95, 85, 83, 69, 82, 95, 73, 68>>  \* "FROM_USER_ID"
K_TO_USER_ID == <<84, 79, 95, 85, 83, 69, 82, 95, 73, 68>>  \* "TO_USER_ID"
K_AMOUNT == <<65, 77, 79, 85, 78, 84>>  \* "AMOUNT"
K_TIMESTAMP == <<84, 73, 77, 69, 83, 84, 65, 77, 80>>  \* "TIMESTAMP"
K_STATUS == <<83, 84, 65, 84, 85, 83>>  \* "STATUS"
K_DESCRIPTION == <<68, 69, 83, 67, 82, 73, 80, 84, 73, 79, 78>>  \* "DESCRIPTION"
T_DEPOSIT == <<68, 69, 80, 79, 83, 73, 84>>  \* "DEPOSIT"
T_TRANSFER == <<84, 82, 65, 78, 83, 70, 69, 82>>  \* "TRANSFER"
T_WITHDRAWAL == <<87, 73, 84, 72, 68, 82, 65, 87, 65, 76>>  \* "WITHDRAWAL"
T_SUCCESS == <<83, 85, 67, 67, 69, 83, 83>>  \* "SUCCESS"
T_FAILURE == <<70, 65, 73, 76, 85, 82, 69>>  \* "FAILURE"
T_PENDING == <<80, 69, 78, 68, 73, 78, 71>>  \* "PENDING"
BIN_MAGIC == <<89, 80, 66, 78>>  \* b"YPBN"

\* CSV_HEADERS: the eight column names, in order
CSV_HEADERS == <<K_TX_ID, K_TX_TYPE, K_FROM_USER_ID, K_TO_USER_ID,
                 K_AMOUNT, K_TIMESTAMP, K_STATUS, K_DESCRIPTION>>

(***************************************************************************)
(* Results: Ok(v) and Err(ParserErr).  msg is kept in parts: the fixed     *)
(* text, the number it carries (a line, a row or a count; 0 when none),    *)
(* the string it quotes (empty when none) and the Display text of the      *)
(* error it wraps ("" when none).                                          *)
(***************************************************************************)
Ok(v) == [ok |-> TRUE, val |-> v]
ParseErrAt(text, num, arg, cause) ==
    [ok |-> FALSE, kind |-> "ParseErr", text |-> text, num |-> num, arg |-> arg, cause |-> cause]
ParseErr(text) == ParseErrAt(text, 0, <<>>, "")
ParseErrArg(text, arg) == ParseErrAt(text, 0, arg, "")
SerializeErr(text) ==
    [ok |-> FALSE, kind |-> "SerializeErr", text |-> text, num |-> 0, arg |-> <<>>, cause |-> ""]

\* Display of ParserErr (the #[error(...)] strings): msg is not part of it
Display(e) ==
    IF e.kind = "ParseErr" THEN "parser -> global error" ELSE "serealize -> global error"

(***************************************************************************)
(* str and Vec<u8> helpers of the standard library.                        *)
(***************************************************************************)
\* the recursion of every definition below runs over lines, fields, digits or
\* records, never over the bytes of a whole document
MinOf(S) == CHOOSE j \in S : \A k \in S : j <= k
MaxOf(S) == CHOOSE j \in S : \A k \in S : j >= k

\* first index >= i of s holding a byte of B, 0 if there is none
FirstOf(s, i, B) ==
    LET S == {j \in i..Len(s) : s[j] \in B} IN
    IF S = {} THEN 0 ELSE MinOf(S)

\* str::find for one byte, from index i on
IndexFrom(s, b, i) == FirstOf(s, i, {b})

Contains(s, b) == \E i \in DOMAIN s : s[i] = b

\* char::is_whitespace on the one-byte characters
IsWhitespace(b) == b \in {9, 10, 11, 12, 13, 32}

\* str::trim
Trim(s) ==
    LET S == {j \in DOMAIN s : ~IsWhitespace(s[j])} IN
    IF S = {} THEN <<>> ELSE SubSeq(s, MinOf(S), MaxOf(S))

\* the bytes of s at the indices in keep, in order
Select(s, keep) ==
    [m \in 1..Cardinality(keep) |->
        s[CHOOSE k \in keep : Cardinality({x \in keep : x <= k}) = m]]

\* str::lines: split at \n, drop the \r of a \r\n, no line after a final \n
RECURSIVE LinesFrom(_, _)
LinesFrom(s, i) ==
    IF i > Len(s) THEN <<>>
    ELSE LET j == IndexFrom(s, LF, i) IN
         IF j = 0 THEN << SubSeq(s, i, Len(s)) >>
         ELSE LET e == IF j > i /\ s[j - 1] = CR THEN j - 2 ELSE j - 1
              IN  << SubSeq(s, i, e) >> \o LinesFrom(s, j + 1)

Lines(s) == LinesFrom(s, 1)

\* [String]::join(sep)
RECURSIVE JoinFrom(_, _, _)
JoinFrom(parts, sep, i) ==
    IF i > Len(parts) THEN <<>>
    ELSE IF i = Len(parts) THEN parts[i]
    ELSE parts[i] \o sep \o JoinFrom(parts, sep, i + 1)

Join(parts, sep) == JoinFrom(parts, sep, 1)

\* str::replace('"', "\"\""): byte k of s lands at index k + (quotes before k),
\* a quote also at the index after it
DoubleQuotes(s) ==
    LET q(k) == Cardinality({x \in 1..k : s[x] = QUOTE})
    IN  [m \in 1..(Len(s) + q(Len(s))) |->
            s[CHOOSE k \in DOMAIN s : k + q(k - 1) <= m /\ m <= k + q(k)]]

\* std::str::from_utf8 validity (RFC 3629): every byte that is no continuation
\* byte starts a well-formed sequence, which the next such byte follows
IsCont(s, i) == i <= Len(s) /\ s[i] \in 128..191

Utf8Width(b) ==
    IF b < 128 THEN 1
    ELSE IF b \in 194..223 THEN 2
    ELSE IF b \in 224..239 THEN 3
    ELSE IF b \in 240..244 THEN 4
    ELSE 0

ValidUtf8(s) ==
    /\ Len(s) > 0 => ~IsCont(s, 1)
    /\ \A i \in DOMAIN s :
          ~IsCont(s, i) =>
             LET b == s[i]
                 w == Utf8Width(b)
             IN  /\ w > 0
                 /\ \A k \in 1..(w - 1) : IsCont(s, i + k)
                 /\ ~IsCont(s, i + w)
                 /\ (b = 224 => s[i + 1] >= 160)
                 /\ (b = 237 => s[i + 1] <= 159)
                 /\ (b = 240 => s[i + 1] >= 144)
                 /\ (b = 244 => s[i + 1] <= 143)

(***************************************************************************)
(* Display and FromStr of the integer fields.                              *)
(***************************************************************************)
\* Display for u64: decimal digits, no sign, no padding
RECURSIVE FormatU64(_)
FormatU64(n) ==
    IF n < 10 THEN << DIGIT0 + n >>
    ELSE FormatU64(n \div 10) \o << DIGIT0 + (n % 10) >>

\* Display for i64
FormatI64(n) == IF n < 0 THEN <<MINUS>> \o FormatU64(0 - n) ELSE FormatU64(n)

IsDigits(s) == Len(s) > 0 /\ Len(s) <= MaxDigits /\ \A i \in DOMAIN s : s[i] \in 48..57

RECURSIVE DigitsValue(_, _)
DigitsValue(s, n) ==
    IF n = 0 THEN 0 ELSE DigitsValue(s, n - 1) * 10 + (s[n] - DIGIT0)

\* <u64 as FromStr>::from_str: an optional '+', then digits only
ParseU64(s) ==
    LET body == IF Len(s) > 0 /\ s[1] = PLUS THEN Tail(s) ELSE s IN
    IF IsDigits(body) THEN Ok(DigitsValue(body, Len(body))) ELSE [ok |-> FALSE]

\* <i64 as FromStr>::from_str: an optional '+' or '-', then digits only
ParseI64(s) ==
    LET neg  == Len(s) > 0 /\ s[1] = MINUS
        body == IF Len(s) > 0 /\ s[1] \in {PLUS, MINUS} THEN Tail(s) ELSE s
    IN  IF IsDigits(body)
        THEN Ok(IF neg THEN 0 - DigitsValue(body, Len(body)) ELSE DigitsValue(body, Len(body)))
        ELSE [ok |-> FALSE]

(***************************************************************************)
(* model::data                                                             *)
(***************************************************************************)
TxType == {"Deposit", "Transfer", "Withdrawal"}
Status == {"Success", "Failure", "Pending"}
Format == {"YpBankCsv", "YpBankText", "YpBankBin"}

TxData(tx_id, tx_type, from_user_id, to_user_id, amount, timestamp, status, description, format) ==
    [tx_id |-> tx_id, tx_type |-> tx_type, from_user_id |-> from_user_id,
     to_user_id |-> to_user_id, amount |-> amount, timestamp |-> timestamp,
     status |-> status, description |-> description, format |-> format]

\* the eight semantic fields of two records agree (format left aside)
SameSemantic(a, b) ==
    /\ a.tx_id = b.tx_id
    /\ a.tx_type = b.tx_type
    /\ a.from_user_id = b.from_user_id
    /\ a.to_user_id = b.to_user_id
    /\ a.amount = b.amount
    /\ a.timestamp = b.timestamp
    /\ a.status = b.status
    /\ a.description = b.description

(***************************************************************************)
(* A byte source (Box<dyn Read>): the bytes it delivers and whether the    *)
(* read after the last byte is an I/O error (TRUE) or end of stream.       *)
(***************************************************************************)
Reader(bytes, io_err) == [bytes |-> bytes, io_err |-> io_err]
Cursor(bytes) == Reader(bytes, FALSE)

(***************************************************************************)
(* parser::text_parser                                                     *)
(***************************************************************************)
text_parse_tx_type_str(s) ==
    IF s = T_DEPOSIT THEN Ok("Deposit")
    ELSE IF s = T_TRANSFER THEN Ok("Transfer")
    ELSE IF s = T_WITHDRAWAL THEN Ok("Withdrawal")
    ELSE ParseErrArg("Invalid TX_TYPE", s)

text_parse_status_str(s) ==
    IF s = T_SUCCESS THEN Ok("Success")
    ELSE IF s = T_FAILURE THEN Ok("Failure")
    ELSE IF s = T_PENDING THEN Ok("Pending")
    ELSE ParseErrArg("Invalid STATUS", s)

\* an unquote that also takes doubled quotes inside for one quote, as the
\* CSV reader does
unquote_collapsing(s) ==
    IF Len(s) >= 2 /\ s[1] = QUOTE /\ s[Len(s)] = QUOTE
    THEN LET t == SubSeq(s, 2, Len(s) - 1)
             run(k) == k - MaxOf({0} \cup {x \in 1..k : t[x] # QUOTE})
         IN  Select(t, {k \in 1..Len(t) : t[k] # QUOTE \/ run(k) % 2 = 1})
    ELSE s

\* the closure unquote of from_text
unquote(s) ==
    IF Len(s) >= 2 /\ s[1] = QUOTE /\ s[Len(s)] = QUOTE
    THEN SubSeq(s, 2, Len(s) - 1)
    ELSE s

\* from_text were it to look every key up before it parses any value, from
\* DESCRIPTION back to TX_ID
from_text_last_missing(fields) ==
    LET absent == {k \in 1..8 : CSV_HEADERS[k] \notin DOMAIN fields} IN
    IF absent # {} THEN ParseErrArg("Missing field", CSV_HEADERS[MaxOf(absent)]) ELSE
    LET tx_id == ParseU64(fields[K_TX_ID])
        tx_type == text_parse_tx_type_str(fields[K_TX_TYPE])
        from_user_id == ParseU64(fields[K_FROM_USER_ID])
        to_user_id == ParseU64(fields[K_TO_USER_ID])
        amount == ParseI64(fields[K_AMOUNT])
        timestamp == ParseU64(fields[K_TIMESTAMP])
        status == text_parse_status_str(fields[K_STATUS])
    IN
    IF ~tx_id.ok THEN ParseErr("Invalid TX_ID") ELSE
    IF ~tx_type.ok THEN tx_type ELSE
    IF ~from_user_id.ok THEN ParseErr("Invalid FROM_USER_ID") ELSE
    IF ~to_user_id.ok THEN ParseErr("Invalid TO_USER_ID") ELSE
    IF ~amount.ok THEN ParseErr("Invalid AMOUNT") ELSE
    IF ~timestamp.ok THEN ParseErr("Invalid TIMESTAMP") ELSE
    IF ~status.ok THEN status ELSE
    Ok(TxData(tx_id.val, tx_type.val, from_user_id.val, to_user_id.val, amount.val,
              timestamp.val, status.val, unquote(fields[K_DESCRIPTION]), "YpBankText"))

\* fields is the HashMap<String, String>: a function from keys to values
from_text(fields) ==
    LET has(k) == k \in DOMAIN fields
        missing(k) == ParseErrArg("Missing field", k)
    IN
    IF ~has(K_TX_ID) THEN missing(K_TX_ID) ELSE
    LET tx_id == ParseU64(fields[K_TX_ID]) IN
    IF ~tx_id.ok THEN ParseErr("Invalid TX_ID") ELSE
    IF ~has(K_TX_TYPE) THEN missing(K_TX_TYPE) ELSE
    LET tx_type == text_parse_tx_type_str(fields[K_TX_TYPE]) IN
    IF ~tx_type.ok THEN tx_type ELSE
    IF ~has(K_FROM_USER_ID) THEN missing(K_FROM_USER_ID) ELSE
    LET from_user_id == ParseU64(fields[K_FROM_USER_ID]) IN
    IF ~from_user_id.ok THEN ParseErr("Invalid FROM_USER_ID") ELSE
    IF ~has(K_TO_USER_ID) THEN missing(K_TO_USER_ID) ELSE
    LET to_user_id == ParseU64(fields[K_TO_USER_ID]) IN
    IF ~to_user_id.ok THEN ParseErr("Invalid TO_USER_ID") ELSE
    IF ~has(K_AMOUNT) THEN missing(K_AMOUNT) ELSE
    LET amount == ParseI64(fields[K_AMOUNT]) IN
    IF ~amount.ok THEN ParseErr("Invalid AMOUNT") ELSE
    IF ~has(K_TIMESTAMP) THEN missing(K_TIMESTAMP) ELSE
    LET timestamp == ParseU64(fields[K_TIMESTAMP]) IN
    IF ~timestamp.ok THEN ParseErr("Invalid TIMESTAMP") ELSE
    IF ~has(K_STATUS) THEN missing(K_STATUS) ELSE
    LET status == text_parse_status_str(fields[K_STATUS]) IN
    IF ~status.ok THEN status ELSE
    IF ~has(K_DESCRIPTION) THEN missing(K_DESCRIPTION) ELSE
    Ok(TxData(tx_id.val, tx_type.val, from_user_id.val, to_user_id.val, amount.val,
              timestamp.val, status.val, unquote(fields[K_DESCRIPTION]), "YpBankText"))

\* HashMap::insert
MapInsert(m, key, value) ==
    [k \in (DOMAIN m) \cup {key} |-> IF k = key THEN value ELSE m[k]]

\* HashMap::new
EmptyMap == [k \in {} |-> <<>>]

\* the for loop and the tail of from_text_many, from line i on
RECURSIVE from_text_many_loop(_, _, _, _)
\* the loop were it to take only blank lines for separators, a line that
\* starts with # being a key-value line like any other
from_text_many_loop_blank_only(lines, i, transactions, current) ==
    IF i > Len(lines)
    THEN IF DOMAIN current # {}
         THEN LET tx == from_text(current) IN
              IF tx.ok THEN Ok(Append(transactions, tx.val)) ELSE tx
         ELSE Ok(transactions)
    ELSE LET line == lines[i]
             trimmed == Trim(line)
         IN
         IF Len(trimmed) = 0
         THEN IF DOMAIN current # {}
              THEN LET tx == from_text(current) IN
                   IF tx.ok
                   THEN from_text_many_loop(lines, i + 1, Append(transactions, tx.val), EmptyMap)
                   ELSE tx
              ELSE from_text_many_loop(lines, i + 1, transactions, current)
         ELSE LET pos == IndexFrom(trimmed, COLON, 1) IN
              IF pos # 0
              THEN LET key == Trim(SubSeq(trimmed, 1, pos - 1))
                       value == Trim(SubSeq(trimmed, pos + 1, Len(trimmed)))
                   IN  from_text_many_loop(lines, i + 1, transactions,
                                           MapInsert(current, key, value))
              ELSE ParseErrAt("Invalid key-value on line", i, line, "")

from_text_many_loop(lines, i, transactions, current) ==
    IF i > Len(lines)
    THEN IF DOMAIN current # {}
         THEN LET tx == from_text(current) IN
              IF tx.ok THEN Ok(Append(transactions, tx.val)) ELSE tx
         ELSE Ok(transactions)
    ELSE LET line == lines[i]
             trimmed == Trim(line)
         IN
         IF Len(trimmed) = 0 \/ trimmed[1] = HASH
         THEN IF DOMAIN current # {}
              THEN LET tx == from_text(current) IN
                   IF tx.ok
                   THEN from_text_many_loop(lines, i + 1, Append(transactions, tx.val), EmptyMap)
                   ELSE tx
              ELSE from_text_many_loop(lines, i + 1, transactions, current)
         ELSE LET pos == IndexFrom(trimmed, COLON, 1) IN
              IF pos # 0
              THEN LET key == Trim(SubSeq(trimmed, 1, pos - 1))
                       value == Trim(SubSeq(trimmed, pos + 1, Len(trimmed)))
                   IN  from_text_many_loop(lines, i + 1, transactions,
                                           MapInsert(current, key, value))
              ELSE ParseErrAt("Invalid key-value on line", i, line, "")

from_text_many(lines) == from_text_many_loop(lines, 1, <<>>, EmptyMap)

from_text_reader(reader) ==
    IF reader.io_err THEN ParseErr("io error")
    ELSE IF ~ValidUtf8(reader.bytes) THEN ParseErr("stream did not contain valid UTF-8")
    ELSE from_text_many(Lines(reader.bytes))

TxTypeToken(tx_type) ==
    CASE tx_type = "Deposit" -> T_DEPOSIT
      [] tx_type = "Transfer" -> T_TRANSFER
      [] tx_type = "Withdrawal" -> T_WITHDRAWAL

StatusToken(status) ==
    CASE status = "Success" -> T_SUCCESS
      [] status = "Failure" -> T_FAILURE
      [] status = "Pending" -> T_PENDING

\* to_text never fails: the two enums are matched exhaustively
to_text(tx) ==
    Ok(   K_TX_ID \o <<COLON, SPACE>> \o FormatU64(tx.tx_id) \o <<LF>>
       \o K_TX_TYPE \o <<COLON, SPACE>> \o TxTypeToken(tx.tx_type) \o <<LF>>
       \o K_FROM_USER_ID \o <<COLON, SPACE>> \o FormatU64(tx.from_user_id) \o <<LF>>
       \o K_TO_USER_ID \o <<COLON, SPACE>> \o FormatU64(tx.to_user_id) \o <<LF>>
       \o K_AMOUNT \o <<COLON, SPACE>> \o FormatI64(tx.amount) \o <<LF>>
       \o K_TIMESTAMP \o <<COLON, SPACE>> \o FormatU64(tx.timestamp) \o <<LF>>
       \o K_STATUS \o <<COLON, SPACE>> \o StatusToken(tx.status) \o <<LF>>
       \o K_DESCRIPTION \o <<COLON, SPACE>> \o <<QUOTE>> \o tx.description \o <<QUOTE>>)

RECURSIVE to_text_many_loop(_, _, _)
to_text_many_loop(transactions, i, output) ==
    IF i > Len(transactions) THEN Ok(output)
    ELSE LET sep == IF i > 1 THEN <<LF>> ELSE <<>>
             t == to_text(transactions[i])
         IN  IF t.ok THEN to_text_many_loop(transactions, i + 1, output \o sep \o t.val)
             ELSE t

to_text_many(transactions) == to_text_many_loop(transactions, 1, <<>>)

(***************************************************************************)
(* parser::csv_parser.  The csv crate's reader as from_csv and             *)
(* from_csv_reader configure it: delimiter ',', quote '"' with doubled     *)
(* quotes, records ended by \r, \n or \r\n, blank lines skipped, records   *)
(* of equal length (flexible = false).                                     *)
(***************************************************************************)
\* StartField at index i of s: the field read from there.  val is its
\* content and stop the index of the delimiter or terminator that ends it
\* (Len(s) + 1 when the bytes end first).  A field that opens with a quote
\* runs to the first quote that is not half of a doubled quote; doubled
\* quotes inside give one quote; what follows the closing quote up to the
\* delimiter is taken as it is, like the whole of an unquoted field.
CsvField(s, i) ==
    LET n == Len(s)
        stopFrom(j) == LET e == FirstOf(s, j, {COMMA, CR, LF}) IN IF e = 0 THEN n + 1 ELSE e
    IN
    IF i > n THEN [val |-> <<>>, stop |-> n + 1]
    ELSE IF s[i] = QUOTE
    THEN LET runStart(e) == 1 + MaxOf({i} \cup {x \in (i + 1)..e : s[x] # QUOTE})
             closers == {e \in (i + 1)..n :
                            /\ s[e] = QUOTE
                            /\ (e = n \/ s[e + 1] # QUOTE)
                            /\ (e - runStart(e) + 1) % 2 = 1}
             close == IF closers = {} THEN n + 1 ELSE MinOf(closers)
             keep == {k \in (i + 1)..(close - 1) :
                         s[k] # QUOTE \/ (k - runStart(k) + 1) % 2 = 0}
             stop == IF close > n THEN n + 1 ELSE stopFrom(close + 1)
         IN  [val |-> Select(s, keep) \o SubSeq(s, close + 1, stop - 1), stop |-> stop]
    ELSE LET stop == stopFrom(i)
         IN  [val |-> SubSeq(s, i, stop - 1), stop |-> stop]

\* the fields of one record, the first of them starting at index i
RECURSIVE CsvFields(_, _, _)
\* the record with the field f read: a delimiter after f starts the next field
CsvFieldsWith(s, rec, f) ==
    IF f.stop <= Len(s) /\ s[f.stop] = COMMA
    THEN CsvFields(s, f.stop + 1, Append(rec, f.val))
    ELSE [val |-> Append(rec, f.val), stop |-> f.stop]

CsvFields(s, i, rec) == CsvFieldsWith(s, rec, CsvField(s, i))

\* what csv::Reader yields next with the stream at index i: a record
\* ("rec", with the index after it), an error ("err") or the end ("end").
\* Record terminators before a record are skipped.  len is the number of
\* fields of the first record of the stream, 0 when this is the first.
CsvRecord(reader, len, r) ==
    IF r.stop > Len(reader.bytes) /\ reader.io_err THEN [tag |-> "err", why |-> "Io"]
    ELSE IF len # 0 /\ Len(r.val) # len THEN [tag |-> "err", why |-> "UnequalLengths"]
    ELSE IF \E k \in DOMAIN r.val : ~ValidUtf8(r.val[k]) THEN [tag |-> "err", why |-> "Utf8"]
    ELSE [tag |-> "rec", val |-> r.val, next |-> r.stop + 1]

CsvNext(reader, i, len) ==
    LET s == reader.bytes
        S == {j \in i..Len(s) : s[j] \notin {CR, LF}}
    IN
    IF S = {}
    THEN IF reader.io_err THEN [tag |-> "err", why |-> "Io"] ELSE [tag |-> "end"]
    ELSE CsvRecord(reader, len, CsvFields(s, MinOf(S), <<>>))

csv_parse_tx_type_str(s) ==
    IF s = T_DEPOSIT THEN Ok("Deposit")
    ELSE IF s = T_TRANSFER THEN Ok("Transfer")
    ELSE IF s = T_WITHDRAWAL THEN Ok("Withdrawal")
    ELSE ParseErrArg("Invalid TX_TYPE", s)

csv_parse_status_str(s) ==
    IF s = T_SUCCESS THEN Ok("Success")
    ELSE IF s = T_FAILURE THEN Ok("Failure")
    ELSE IF s = T_PENDING THEN Ok("Pending")
    ELSE ParseErrArg("Invalid STATUS", s)

from_csv_record(record) ==
    IF Len(record) # 8 THEN ParseErrAt("Expected 8 fields, got", Len(record), <<>>, "") ELSE
    LET tx_id == ParseU64(record[1]) IN
    IF ~tx_id.ok THEN ParseErr("Invalid TX_ID") ELSE
    LET tx_type == csv_parse_tx_type_str(record[2]) IN
    IF ~tx_type.ok THEN tx_type ELSE
    LET from_user_id == ParseU64(record[3]) IN
    IF ~from_user_id.ok THEN ParseErr("Invalid from_user_id") ELSE
    LET to_user_id == ParseU64(record[4]) IN
    IF ~to_user_id.ok THEN ParseErr("Invalid to_user_id") ELSE
    LET amount == ParseI64(record[5]) IN
    IF ~amount.ok THEN ParseErr("Invalid amount") ELSE
    LET timestamp == ParseU64(record[6]) IN
    IF ~timestamp.ok THEN ParseErr("Invalid TIMESTAMP") ELSE
    LET status == csv_parse_status_str(record[7]) IN
    IF ~status.ok THEN status ELSE
    Ok(TxData(tx_id.val, tx_type.val, from_user_id.val, to_user_id.val, amount.val,
              timestamp.val, status.val, record[8], "YpBankCsv"))

\* from_csv were it to leave the record it returns without the tag of the
\* CSV codec
from_csv_first_untagged(first) ==
    IF first.tag = "end" THEN ParseErr("Empty CSV line")
    ELSE IF first.tag = "err" THEN ParseErrAt("csv error", 0, <<>>, first.why)
    ELSE IF ~from_csv_record(first.val).ok THEN from_csv_record(first.val)
    ELSE Ok([from_csv_record(first.val).val EXCEPT !.format = "YpBankText"])

\* csv_line is a &str: the reader has no header row and only its first
\* record is taken
from_csv_first(first) ==
    IF first.tag = "end" THEN ParseErr("Empty CSV line")
    ELSE IF first.tag = "err" THEN ParseErrAt("csv error", 0, <<>>, first.why)
    ELSE from_csv_record(first.val)

from_csv(csv_line) == from_csv_first(CsvNext(Cursor(csv_line), 1, 0))

RECURSIVE from_csv_many_loop(_, _, _)
\* the match were it to leave a line that fails out and go on
from_csv_many_match_skip(csv_lines, i, transactions, tx) ==
    IF tx.ok THEN from_csv_many_loop(csv_lines, i + 1, Append(transactions, tx.val))
    ELSE from_csv_many_loop(csv_lines, i + 1, transactions)

\* the match on from_csv(line) of the loop
from_csv_many_match(csv_lines, i, transactions, tx) ==
    IF tx.ok THEN from_csv_many_loop(csv_lines, i + 1, Append(transactions, tx.val))
    ELSE ParseErrAt("Error parsing line", i, <<>>, Display(tx))

from_csv_many_loop(csv_lines, i, transactions) ==
    IF i > Len(csv_lines) THEN Ok(transactions)
    ELSE IF Len(Trim(csv_lines[i])) = 0
         THEN from_csv_many_loop(csv_lines, i + 1, transactions)
    ELSE from_csv_many_match(csv_lines, i, transactions, from_csv(csv_lines[i]))

\* from_csv_many were it to take the eight column names in any order
from_csv_many_any_order(csv_lines) ==
    IF Len(csv_lines) = 0 THEN ParseErr("CSV is empty")
    ELSE IF \E names \in {CsvFields(Trim(csv_lines[1]), 1, <<>>).val} :
               \/ Len(names) # 8
               \/ {names[k] : k \in DOMAIN names} # {CSV_HEADERS[k] : k \in 1..8}
         THEN ParseErrArg("Invalid header", csv_lines[1])
    ELSE from_csv_many_loop(csv_lines, 2, <<>>)

\* from_csv_many were it to take an empty list of lines for no records
from_csv_many_empty_ok(csv_lines) ==
    IF Len(csv_lines) = 0 THEN Ok(<<>>)
    ELSE IF Trim(csv_lines[1]) # CSV_HEADER_LINE
         THEN ParseErrArg("Invalid header", csv_lines[1])
    ELSE from_csv_many_loop(csv_lines, 2, <<>>)

from_csv_many(csv_lines) ==
    IF Len(csv_lines) = 0 THEN ParseErr("CSV is empty")
    ELSE IF Trim(csv_lines[1]) # CSV_HEADER_LINE
         THEN ParseErrArg("Invalid header", csv_lines[1])
    ELSE from_csv_many_loop(csv_lines, 2, <<>>)

\* the loop over rdr.records() with the stream at index i; row is the
\* number of the row read next (the header is row 1)
RECURSIVE from_csv_reader_loop(_, _, _, _)
\* the end of the loop body: from_csv_record(&record) mapped, `?`, push
from_csv_reader_push(reader, next, row, transactions, tx) ==
    IF tx.ok
    THEN from_csv_reader_loop(reader, next, row + 1, Append(transactions, tx.val))
    ELSE ParseErrAt("Field error on row", row, <<>>, Display(tx))

\* the loop body for the item `result` of rdr.records()
from_csv_reader_row(reader, row, transactions, result) ==
    IF result.tag = "end" THEN Ok(transactions)
    ELSE IF result.tag = "err"
         THEN ParseErrAt("CSV parse error on row", row, <<>>, result.why)
    ELSE IF \A f \in DOMAIN result.val : Len(result.val[f]) = 0
         THEN from_csv_reader_loop(reader, result.next, row + 1, transactions)
    ELSE from_csv_reader_push(reader, result.next, row, transactions,
                              from_csv_record(result.val))

from_csv_reader_loop(reader, i, row, transactions) ==
    from_csv_reader_row(reader, row, transactions, CsvNext(reader, i, 8))

\* the check were it to take the eight column names in any order
from_csv_reader_headers_any_order(reader, head) ==
    IF head.tag = "err"
    THEN ParseErrAt("Failed to read CSV header", 0, <<>>, head.why)
    ELSE IF \/ head.tag = "end"
            \/ Len(head.val) # 8
            \/ {head.val[k] : k \in DOMAIN head.val} # {CSV_HEADERS[k] : k \in 1..8}
         THEN ParseErr("Invalid CSV header")
    ELSE from_csv_reader_loop(reader, head.next, 2, <<>>)

\* the check of rdr.headers() and the loop after it
from_csv_reader_headers(reader, head) ==
    IF head.tag = "err"
    THEN ParseErrAt("Failed to read CSV header", 0, <<>>, head.why)
    ELSE IF (IF head.tag = "end" THEN <<>> ELSE head.val) # CSV_HEADERS
         THEN ParseErr("Invalid CSV header")
    ELSE from_csv_reader_loop(reader, head.next, 2, <<>>)

from_csv_reader(reader) == from_csv_reader_headers(reader, CsvNext(reader, 1, 0))

\* an escape that leaves the quotes of the field single
escape_csv_field_raw(s) == s

escape_csv_field(s) ==
    IF Contains(s, QUOTE) \/ Contains(s, COMMA) \/ Contains(s, LF)
    THEN DoubleQuotes(s)
    ELSE s

\* to_csv were it to escape the description only of records that are not
\* tagged YpBankCsv already
to_csv_by_tag(tx) ==
    Ok(   FormatU64(tx.tx_id) \o <<COMMA>>
       \o TxTypeToken(tx.tx_type) \o <<COMMA>>
       \o FormatU64(tx.from_user_id) \o <<COMMA>>
       \o FormatU64(tx.to_user_id) \o <<COMMA>>
       \o FormatI64(tx.amount) \o <<COMMA>>
       \o FormatU64(tx.timestamp) \o <<COMMA>>
       \o StatusToken(tx.status) \o <<COMMA>>
       \o <<QUOTE>>
       \o (IF tx.format = "YpBankCsv" THEN tx.description ELSE escape_csv_field(tx.description))
       \o <<QUOTE>>)

\* to_csv never fails: the two enums are matched exhaustively
to_csv(tx) ==
    Ok(   FormatU64(tx.tx_id) \o <<COMMA>>
       \o TxTypeToken(tx.tx_type) \o <<COMMA>>
       \o FormatU64(tx.from_user_id) \o <<COMMA>>
       \o FormatU64(tx.to_user_id) \o <<COMMA>>
       \o FormatI64(tx.amount) \o <<COMMA>>
       \o FormatU64(tx.timestamp) \o <<COMMA>>
       \o StatusToken(tx.status) \o <<COMMA>>
       \o <<QUOTE>> \o escape_csv_field(tx.description) \o <<QUOTE>>)

RECURSIVE to_csv_many_loop(_, _, _)
to_csv_many_loop(transactions, i, output) ==
    IF i > Len(transactions) THEN Ok(output)
    ELSE LET t == to_csv(transactions[i]) IN
         IF t.ok THEN to_csv_many_loop(transactions, i + 1, output \o t.val \o <<LF>>)
         ELSE t

to_csv_many(transactions) == to_csv_many_loop(transactions, 1, CSV_HEADER_LINE \o <<LF>>)

(***************************************************************************)
(* parser::concrete::bin_psrser                                            *)
(***************************************************************************)
\* a write of the n low bytes of v >= 0, least significant first
RECURSIVE LEBytes(_, _)
LEBytes(v, n) ==
    IF n = 0 THEN <<>> ELSE << v % 256 >> \o LEBytes(v \div 256, n - 1)

\* write_uN::<BigEndian>: the n low bytes of v >= 0, most significant first
RECURSIVE BEBytes(_, _)
BEBytes(v, n) ==
    IF n = 0 THEN <<>> ELSE BEBytes(v \div 256, n - 1) \o << v % 256 >>

\* a write of the magnitude, the sign dropped
I64BytesMagnitude(v) == BEBytes(IF v >= 0 THEN v ELSE 0 - v, 8)

\* write_i64::<BigEndian>: two's complement
I64Bytes(v) ==
    IF v >= 0 THEN BEBytes(v, 8)
    ELSE LET m == BEBytes((0 - v) - 1, 8) IN [k \in 1..8 |-> 255 - m[k]]

\* read_uN::<BigEndian> of the n bytes of s from index i
RECURSIVE BEValue(_, _, _)
BEValue(s, i, n) ==
    IF n = 0 THEN 0 ELSE BEValue(s, i, n - 1) * 256 + s[i + n - 1]

\* read_i64::<BigEndian> of the 8 bytes of s from index i
I64Value(s, i) ==
    IF s[i] >= 128
    THEN LET m == [k \in 1..8 |-> 255 - s[i + k - 1]] IN (0 - BEValue(m, 1, 8)) - 1
    ELSE BEValue(s, i, 8)

TxTypeCode(tx_type) ==
    CASE tx_type = "Deposit" -> 0
      [] tx_type = "Transfer" -> 1
      [] tx_type = "Withdrawal" -> 2

StatusCode(status) ==
    CASE status = "Success" -> 0
      [] status = "Failure" -> 1
      [] status = "Pending" -> 2

\* the error of a read past the end of the cursor or of the stream
UnexpectedEof == ParseErr("failed to fill whole buffer")

\* cursor.position() when from_bin returns: a read moves the cursor by
\* the bytes it takes, a read that finds too few bytes moves it to the end
\* of the body
from_bin_position(body) ==
    LET n == Len(body) IN
    IF n < 9 THEN n ELSE
    IF body[9] > 2 THEN 9 ELSE
    IF n < 42 THEN n ELSE
    IF body[42] > 2 THEN 42 ELSE
    IF n < 46 THEN n ELSE
    IF body[43] >= 128 \/ 46 + BEValue(body, 43, 4) > n THEN 46
    ELSE 46 + BEValue(body, 43, 4)

\* from_bin without the comparison of desc_len with the rest of the body:
\* read_exact(&mut desc_bytes) then finds too few bytes
from_bin_unchecked(body) ==
    LET n == Len(body) IN
    IF n < 9 THEN UnexpectedEof ELSE
    IF body[9] > 2 THEN ParseErrAt("Invalid TX_TYPE", body[9], <<>>, "") ELSE
    IF n < 42 THEN UnexpectedEof ELSE
    IF body[42] > 2 THEN ParseErrAt("Invalid STATUS", body[42], <<>>, "") ELSE
    IF n < 46 THEN UnexpectedEof ELSE
    IF body[43] >= 128 \/ 46 + BEValue(body, 43, 4) > n THEN UnexpectedEof ELSE
    LET desc_bytes == SubSeq(body, 47, 46 + BEValue(body, 43, 4)) IN
    IF ~ValidUtf8(desc_bytes) THEN ParseErr("Invalid UTF-8 in DESCRIPTION") ELSE
    Ok(TxData(BEValue(body, 1, 8),
              CASE body[9] = 0 -> "Deposit" [] body[9] = 1 -> "Transfer" [] body[9] = 2 -> "Withdrawal",
              BEValue(body, 10, 8), BEValue(body, 18, 8), I64Value(body, 26), BEValue(body, 34, 8),
              CASE body[42] = 0 -> "Success" [] body[42] = 1 -> "Failure" [] body[42] = 2 -> "Pending",
              desc_bytes, "YpBankBin"))

\* from_bin were it to refuse a body with bytes after the description
from_bin_exact(body) ==
    IF from_bin_unchecked(body) = UnexpectedEof /\ Len(body) >= 46
    THEN ParseErr("DESCRIPTION length exceeds body")
    ELSE IF from_bin_unchecked(body).ok
            /\ 46 + Len(from_bin_unchecked(body).val.description) < Len(body)
    THEN ParseErr("bytes after DESCRIPTION")
    ELSE from_bin_unchecked(body)

\* body is the &[u8] of one record; the cursor position before each read
\* is the number of bytes read so far
from_bin(body) ==
    LET n == Len(body) IN
    IF n < 8 THEN UnexpectedEof ELSE
    LET tx_id == BEValue(body, 1, 8) IN
    IF n < 9 THEN UnexpectedEof ELSE
    IF body[9] > 2 THEN ParseErrAt("Invalid TX_TYPE", body[9], <<>>, "") ELSE
    LET tx_type == CASE body[9] = 0 -> "Deposit" [] body[9] = 1 -> "Transfer"
                     [] body[9] = 2 -> "Withdrawal" IN
    IF n < 17 THEN UnexpectedEof ELSE
    LET from_user_id == BEValue(body, 10, 8) IN
    IF n < 25 THEN UnexpectedEof ELSE
    LET to_user_id == BEValue(body, 18, 8) IN
    IF n < 33 THEN UnexpectedEof ELSE
    LET amount == I64Value(body, 26) IN
    IF n < 41 THEN UnexpectedEof ELSE
    LET timestamp == BEValue(body, 34, 8) IN
    IF n < 42 THEN UnexpectedEof ELSE
    IF body[42] > 2 THEN ParseErrAt("Invalid STATUS", body[42], <<>>, "") ELSE
    LET status == CASE body[42] = 0 -> "Success" [] body[42] = 1 -> "Failure"
                    [] body[42] = 2 -> "Pending" IN
    IF n < 46 THEN UnexpectedEof ELSE
    \* a length of 2^31 or more exceeds every body of the model
    IF body[43] >= 128 \/ 46 + BEValue(body, 43, 4) > n
    THEN ParseErr("DESCRIPTION length exceeds body") ELSE
    LET desc_len == BEValue(body, 43, 4)
        desc_bytes == SubSeq(body, 47, 46 + desc_len)
    IN
    IF ~ValidUtf8(desc_bytes) THEN ParseErr("Invalid UTF-8 in DESCRIPTION") ELSE
    Ok(TxData(tx_id, tx_type, from_user_id, to_user_id, amount, timestamp, status,
              desc_bytes, "YpBankBin"))

\* the loop of from_bin_reader with the stream at index i
RECURSIVE from_bin_reader_loop(_, _, _)
\* the loop were it to take 4 bytes that are not the magic as the end of
\* the stream
from_bin_reader_loop_lenient(reader, i, transactions) ==
    LET s == reader.bytes
        left == Len(s) - i + 1
    IN
    IF left < 4 THEN Ok(transactions) ELSE
    IF SubSeq(s, i, i + 3) # BIN_MAGIC THEN Ok(transactions) ELSE
    IF left < 8 THEN (IF reader.io_err THEN ParseErr("io error") ELSE UnexpectedEof) ELSE
    IF s[i + 4] >= 128 \/ left - 8 < BEValue(s, i + 4, 4)
    THEN (IF reader.io_err THEN ParseErr("io error") ELSE UnexpectedEof) ELSE
    LET record_size == BEValue(s, i + 4, 4)
        tx == from_bin(SubSeq(s, i + 8, i + 7 + record_size))
    IN  IF tx.ok
        THEN from_bin_reader_loop(reader, i + 8 + record_size, Append(transactions, tx.val))
        ELSE tx

from_bin_reader_loop(reader, i, transactions) ==
    LET s == reader.bytes
        left == Len(s) - i + 1
    IN
    \* read_exact(&mut magic).is_err(): end of stream or I/O error alike
    IF left < 4 THEN Ok(transactions) ELSE
    IF SubSeq(s, i, i + 3) # BIN_MAGIC THEN ParseErr("Invalid MAGIC number") ELSE
    IF left < 8 THEN (IF reader.io_err THEN ParseErr("io error") ELSE UnexpectedEof) ELSE
    \* a size of 2^31 or more exceeds every stream of the model
    IF s[i + 4] >= 128 \/ left - 8 < BEValue(s, i + 4, 4)
    THEN (IF reader.io_err THEN ParseErr("io error") ELSE UnexpectedEof) ELSE
    LET record_size == BEValue(s, i + 4, 4)
        tx == from_bin(SubSeq(s, i + 8, i + 7 + record_size))
    IN  IF tx.ok
        THEN from_bin_reader_loop(reader, i + 8 + record_size, Append(transactions, tx.val))
        ELSE tx

from_bin_reader(reader) == from_bin_reader_loop(reader, 1, <<>>)

\* writes to a Vec<u8> cannot fail, so to_bin always returns Ok
to_bin(tx) ==
    LET body ==    BEBytes(tx.tx_id, 8)
                \o << TxTypeCode(tx.tx_type) >>
                \o BEBytes(tx.from_user_id, 8)
                \o BEBytes(tx.to_user_id, 8)
                \o I64Bytes(tx.amount)
                \o BEBytes(tx.timestamp, 8)
                \o << StatusCode(tx.status) >>
                \o BEBytes(Len(tx.description), 4)
                \o tx.description
    IN  Ok(BIN_MAGIC \o BEBytes(Len(body), 4) \o body)

RECURSIVE to_bin_many_loop(_, _, _)
\* the loop were it to put each frame before those already written
to_bin_many_loop_prepend(transactions, i, all) ==
    IF i > Len(transactions) THEN Ok(all)
    ELSE LET b == to_bin(transactions[i]) IN
         IF b.ok THEN to_bin_many_loop(transactions, i + 1, b.val \o all) ELSE b

to_bin_many_loop(transactions, i, all) ==
    IF i > Len(transactions) THEN Ok(all)
    ELSE LET b == to_bin(transactions[i]) IN
         IF b.ok THEN to_bin_many_loop(transactions, i + 1, all \o b.val) ELSE b

to_bin_many(transactions) == to_bin_many_loop(transactions, 1, <<>>)

(***************************************************************************)
(* State.                                                                  *)
(***************************************************************************)
VARIABLES
    program,        \* what runs: "cli-converter", "cli-comparer" or "lib" (the codecs called directly)
    pc,             \* the statement the program is at
    args,           \* the command line arguments (resources and formats)
    fs,             \* the files: path -> [exists, bytes, io_err]
    stdin,          \* standard input: [bytes, io_err]
    stdout,         \* the bytes standard output has received
    fault,          \* the step of the destination that the environment fails: "none", "create", "write", "flush"
    reader,         \* the open Box<dyn Read>, NoValue when none is open
    data,           \* converter: the decoded source
    output,         \* converter: the open destination writer: [open, buffer]
    data_to_write,  \* converter: the encoded bytes
    first_txn,      \* comparer: the decoded first resource
    second_txn,     \* comparer: the decoded second resource
    result,         \* what the program or the function returned, NoValue before
    log,            \* the operations done on the resources, in order
    txns,           \* lib: the records handed to an encoder
    encoded,        \* lib: what the encoder returned, with the encoder's name
    decoded         \* lib: what the decoder returned, with the decoder's name

vars == << program, pc, args, fs, stdin, stdout, fault, reader, data, output,
           data_to_write, first_txn, second_txn, result, log, txns, encoded, decoded >>

NoValue == [none |-> TRUE]

(***************************************************************************)
(* console::commands::Resource and the files of the model.                 *)
(***************************************************************************)
Console == [kind |-> "Console", path |-> ""]
File(path) == [kind |-> "File", path |-> path]

Paths == {"in", "in2", "out", "missing"}
NoFile == [exists |-> FALSE, bytes |-> <<>>, io_err |-> FALSE]
FileOf(bytes, io_err) == [exists |-> TRUE, bytes |-> bytes, io_err |-> io_err]

(***************************************************************************)
(* parser::io::reader and parser::io::writer                               *)
(***************************************************************************)
\* the match of read: stdin, or File::open, which fails on a missing file
read_open(resource) ==
    IF resource.kind = "Console" THEN Ok(Reader(stdin.bytes, stdin.io_err))
    ELSE IF ~fs[resource.path].exists THEN ParseErr("No such file or directory")
    ELSE Ok(Reader(fs[resource.path].bytes, fs[resource.path].io_err))

read_from_resource(resource, format) ==
    CASE format = "YpBankBin" -> from_bin_reader(resource)
      [] format = "YpBankCsv" -> from_csv_reader(resource)
      [] format = "YpBankText" -> from_text_reader(resource)

\* the `let data_to_write = match format` of write_to_resource: every
\* record is encoded on its own, the first failure is returned
encode_for_resource(records, format) ==
    LET enc(tx) == CASE format = "YpBankBin" -> to_bin(tx)
                     [] format = "YpBankCsv" -> to_csv(tx)
                     [] format = "YpBankText" -> to_text(tx)
        parts == [i \in DOMAIN records |-> enc(records[i])]
        bad == {i \in DOMAIN records : ~parts[i].ok}
        sep == IF format = "YpBankBin" THEN <<>> ELSE <<LF>>
    IN  IF bad # {} THEN parts[MinOf(bad)]
        ELSE Ok(Join([i \in DOMAIN records |-> parts[i].val], sep))

\* the bytes a destination holds
DestBytes(resource) ==
    IF resource.kind = "Console" THEN stdout ELSE fs[resource.path].bytes

(***************************************************************************)
(* cli-converter: process_convert_logic, one action per call it makes.     *)
(***************************************************************************)
ConvertOk == [ok |-> TRUE, success |-> TRUE]
Prepare(err) == [ok |-> FALSE, variant |-> "Prepare", err |-> err]

ConvUnchanged == UNCHANGED << program, args, fault, first_txn, second_txn, txns, encoded, decoded >>

\* an open of the source that creates the destination at once
ConvOpenSourceEager ==
    /\ program = "cli-converter" /\ pc = "open_source"
    /\ LET r == read_open(args.from) IN
       IF r.ok
       THEN /\ reader' = r.val
            /\ log' = Append(log, "source_open")
            /\ pc' = "decode_source"
            /\ UNCHANGED result
       ELSE /\ result' = Prepare(r)
            /\ log' = Append(log, "source_open_failed")
            /\ pc' = "done"
            /\ UNCHANGED reader
    /\ fs' = IF args.to.kind = "File"
             THEN [fs EXCEPT ![args.to.path] = FileOf(<<>>, FALSE)]
             ELSE fs
    /\ UNCHANGED << stdin, stdout, data, output, data_to_write >>
    /\ ConvUnchanged

\* read(from, from_format): open the source
ConvOpenSource ==
    /\ program = "cli-converter" /\ pc = "open_source"
    /\ LET r == read_open(args.from) IN
       IF r.ok
       THEN /\ reader' = r.val
            /\ log' = Append(log, "source_open")
            /\ pc' = "decode_source"
            /\ UNCHANGED result
       ELSE /\ result' = Prepare(r)
            /\ log' = Append(log, "source_open_failed")
            /\ pc' = "done"
            /\ UNCHANGED reader
    /\ UNCHANGED << fs, stdin, stdout, data, output, data_to_write >>
    /\ ConvUnchanged

\* read(from, from_format): read_from_resource, then the `?`
ConvDecodeSource ==
    /\ program = "cli-converter" /\ pc = "decode_source"
    /\ \E r \in {read_from_resource(reader, args.from_format)} :
       IF r.ok
       THEN /\ data' = r.val
            /\ log' = Append(log, "source_decoded")
            /\ pc' = "create_dest"
            /\ UNCHANGED result
       ELSE /\ result' = Prepare(r)
            /\ log' = Append(log, "source_decode_failed")
            /\ pc' = "done"
            /\ UNCHANGED data
    /\ reader' = NoValue
    /\ UNCHANGED << fs, stdin, stdout, output, data_to_write >>
    /\ ConvUnchanged

\* write_to_resource: write(resource), File::create truncates the file
ConvCreateDest ==
    /\ program = "cli-converter" /\ pc = "create_dest"
    /\ IF args.to.kind = "File" /\ fault = "create"
       THEN /\ result' = Prepare(ParseErr("Permission denied"))
            /\ log' = Append(log, "dest_create_failed")
            /\ pc' = "done"
            /\ UNCHANGED << fs, output >>
       ELSE /\ fs' = IF args.to.kind = "File"
                     THEN [fs EXCEPT ![args.to.path] = FileOf(<<>>, FALSE)]
                     ELSE fs
            /\ output' = [open |-> TRUE, buffer |-> <<>>]
            /\ log' = Append(log, "dest_create")
            /\ pc' = "encode"
            /\ UNCHANGED result
    /\ UNCHANGED << stdin, stdout, reader, data, data_to_write >>
    /\ ConvUnchanged

\* write_to_resource: let data_to_write = match format { ... }
ConvEncode ==
    /\ program = "cli-converter" /\ pc = "encode"
    /\ \E e \in {encode_for_resource(data, args.to_format)} :
       IF e.ok
       THEN /\ data_to_write' = e.val
            /\ pc' = "write_all"
            /\ UNCHANGED result
       ELSE /\ result' = Prepare(e)
            /\ pc' = "done"
            /\ UNCHANGED data_to_write
    /\ UNCHANGED << fs, stdin, stdout, reader, data, output, log >>
    /\ ConvUnchanged

\* write_to_resource were it to return Ok(()) once write_all returned,
\* the buffered bytes never flushed
ConvWriteAllUnflushed ==
    /\ program = "cli-converter" /\ pc = "write_all"
    /\ IF fault = "write"
       THEN /\ result' = Prepare(ParseErr("write failed"))
            /\ log' = Append(log, "dest_write_failed")
            /\ UNCHANGED output
       ELSE /\ output' = [output EXCEPT !.buffer = data_to_write]
            /\ log' = Append(log, "dest_write")
            /\ result' = ConvertOk
    /\ pc' = "done"
    /\ UNCHANGED << fs, stdin, stdout, reader, data, data_to_write >>
    /\ ConvUnchanged

\* write_to_resource: output.write_all(&data_to_write)
ConvWriteAll ==
    /\ program = "cli-converter" /\ pc = "write_all"
    /\ IF fault = "write"
       THEN /\ result' = Prepare(ParseErr("write failed"))
            /\ log' = Append(log, "dest_write_failed")
            /\ pc' = "done"
            /\ UNCHANGED output
       ELSE /\ output' = [output EXCEPT !.buffer = data_to_write]
            /\ log' = Append(log, "dest_write")
            /\ pc' = "flush"
            /\ UNCHANGED result
    /\ UNCHANGED << fs, stdin, stdout, reader, data, data_to_write >>
    /\ ConvUnchanged

\* write_to_resource: output.flush(), then Ok(()); process_convert_logic
\* then returns Ok(ConvertLogicResult { success: true }).  A failed flush
\* leaves any prefix of the buffer in the destination.
ConvFlush ==
    /\ program = "cli-converter" /\ pc = "flush"
    /\ \E n \in (IF fault = "flush" THEN {0, Len(output.buffer) \div 2} ELSE {Len(output.buffer)}) :
          LET written == SubSeq(output.buffer, 1, n) IN
          /\ fs' = IF args.to.kind = "File"
                   THEN [fs EXCEPT ![args.to.path].bytes = written]
                   ELSE fs
          /\ stdout' = IF args.to.kind = "Console" THEN stdout \o written ELSE stdout
    /\ IF fault = "flush"
       THEN /\ result' = Prepare(ParseErr("flush failed"))
            /\ log' = Append(log, "dest_flush_failed")
       ELSE /\ result' = ConvertOk
            /\ log' = Append(log, "dest_flush")
    /\ pc' = "done"
    /\ UNCHANGED << stdin, reader, data, output, data_to_write >>
    /\ ConvUnchanged

(***************************************************************************)
(* cli-comparer: process_comparer_logic, one action per call it makes.     *)
(***************************************************************************)
CompareOk(b) == [ok |-> TRUE, result |-> b]

\* a comparison of records that leaves the format tag out
TxDataEqSemantic(a, b) == SameSemantic(a, b)

\* #[derive(PartialEq, Eq)] of TxData: all nine fields
TxDataEq(a, b) == a = b

\* a comparison of vectors that looks at what they hold, not at the order
VecEqUnordered(a, b) ==
    /\ Len(a) = Len(b)
    /\ \A x \in {a[i] : i \in 1..Len(a)} \cup {b[i] : i \in 1..Len(b)} :
          Cardinality({i \in 1..Len(a) : a[i] = x}) = Cardinality({i \in 1..Len(b) : b[i] = x})

\* Vec<TxData> == Vec<TxData>: same length and equal element by element
VecEq(a, b) ==
    /\ Len(a) = Len(b)
    /\ \A i \in 1..Len(a) : TxDataEq(a[i], b[i])

CmpUnchanged == UNCHANGED << program, args, fs, stdout, fault, data, output, data_to_write, txns, encoded, decoded >>

\* what is left of stdin once a reader over it has been read to its end
Drained(resource) ==
    IF resource.kind = "Console" THEN [bytes |-> <<>>, io_err |-> FALSE] ELSE stdin

\* read(first_from, first_format): open the first resource
CmpOpenFirst ==
    /\ program = "cli-comparer" /\ pc = "open_first"
    /\ LET r == read_open(args.first_from) IN
       IF r.ok
       THEN /\ reader' = r.val
            /\ log' = Append(log, "first_open")
            /\ pc' = "decode_first"
            /\ UNCHANGED result
       ELSE /\ result' = Prepare(r)
            /\ log' = Append(log, "first_open_failed")
            /\ pc' = "done"
            /\ UNCHANGED reader
    /\ UNCHANGED << stdin, first_txn, second_txn >>
    /\ CmpUnchanged

\* a first decode without the `?`: a failure is taken as an empty list
CmpDecodeFirstLenient ==
    /\ program = "cli-comparer" /\ pc = "decode_first"
    /\ \E r \in {read_from_resource(reader, args.first_format)} :
       /\ first_txn' = IF r.ok THEN r.val ELSE <<>>
       /\ log' = Append(log, IF r.ok THEN "first_decoded" ELSE "first_decode_failed")
    /\ pc' = "open_second"
    /\ reader' = NoValue
    /\ stdin' = Drained(args.first_from)
    /\ UNCHANGED << second_txn, result >>
    /\ CmpUnchanged

\* read(first_from, first_format): read_from_resource, then the `?`
CmpDecodeFirst ==
    /\ program = "cli-comparer" /\ pc = "decode_first"
    /\ \E r \in {read_from_resource(reader, args.first_format)} :
       IF r.ok
       THEN /\ first_txn' = r.val
            /\ log' = Append(log, "first_decoded")
            /\ pc' = "open_second"
            /\ UNCHANGED result
       ELSE /\ result' = Prepare(r)
            /\ log' = Append(log, "first_decode_failed")
            /\ pc' = "done"
            /\ UNCHANGED first_txn
    /\ reader' = NoValue
    /\ stdin' = Drained(args.first_from)
    /\ UNCHANGED second_txn
    /\ CmpUnchanged

\* read(second_from, second_format): open the second resource
CmpOpenSecond ==
    /\ program = "cli-comparer" /\ pc = "open_second"
    /\ LET r == read_open(args.second_from) IN
       IF r.ok
       THEN /\ reader' = r.val
            /\ log' = Append(log, "second_open")
            /\ pc' = "decode_second"
            /\ UNCHANGED result
       ELSE /\ result' = Prepare(r)
            /\ log' = Append(log, "second_open_failed")
            /\ pc' = "done"
            /\ UNCHANGED reader
    /\ UNCHANGED << stdin, first_txn, second_txn >>
    /\ CmpUnchanged

\* read(second_from, second_format): read_from_resource, then the `?`
CmpDecodeSecond ==
    /\ program = "cli-comparer" /\ pc = "decode_second"
    /\ \E r \in {read_from_resource(reader, args.second_format)} :
       IF r.ok
       THEN /\ second_txn' = r.val
            /\ log' = Append(log, "second_decoded")
            /\ pc' = "compare"
            /\ UNCHANGED result
       ELSE /\ result' = Prepare(r)
            /\ log' = Append(log, "second_decode_failed")
            /\ pc' = "done"
            /\ UNCHANGED second_txn
    /\ reader' = NoValue
    /\ stdin' = Drained(args.second_from)
    /\ UNCHANGED first_txn
    /\ CmpUnchanged

\* the comparison were it to look at the two format selectors as well
CmpCompareSelectors ==
    /\ program = "cli-comparer" /\ pc = "compare"
    /\ result' = CompareOk(args.first_format = args.second_format /\ VecEq(first_txn, second_txn))
    /\ pc' = "done"
    /\ UNCHANGED << stdin, reader, first_txn, second_txn, log >>
    /\ CmpUnchanged

\* let result = first_txn == second_txn; Ok(CompareLogicResult { result })
CmpCompare ==
    /\ program = "cli-comparer" /\ pc = "compare"
    /\ result' = CompareOk(VecEq(first_txn, second_txn))
    /\ pc' = "done"
    /\ UNCHANGED << stdin, reader, first_txn, second_txn, log >>
    /\ CmpUnchanged

(***************************************************************************)
(* lib: the public encoders and decoders called directly, as the unit      *)
(* tests of the parsers call them: one encoder, then one decoder of the    *)
(* same format on what the encoder returned.                               *)
(***************************************************************************)
LibUnchanged == UNCHANGED << program, args, fs, stdin, stdout, fault, reader, data, output,
                             data_to_write, first_txn, second_txn, result, log, txns >>

Encode(fn, res) ==
    /\ program = "lib" /\ pc = "input"
    /\ encoded' = [fn |-> fn, res |-> res]
    /\ pc' = "encoded"
    /\ UNCHANGED decoded
    /\ LibUnchanged

Decode(fn, after, res) ==
    /\ program = "lib" /\ pc = "encoded"
    /\ encoded.fn \in after
    /\ encoded.res.ok
    /\ decoded' = [fn |-> fn, res |-> res]
    /\ pc' = "decoded"
    /\ UNCHANGED encoded
    /\ LibUnchanged

CallToText == Len(txns) = 1 /\ Encode("to_text", to_text(txns[1]))
CallToTextMany == Len(txns) >= 0 /\ Encode("to_text_many", to_text_many(txns))
CallToCsv == Len(txns) = 1 /\ Encode("to_csv", to_csv(txns[1]))
CallToCsvMany == Len(txns) >= 0 /\ Encode("to_csv_many", to_csv_many(txns))
CallToBin == Len(txns) = 1 /\ Encode("to_bin", to_bin(txns[1]))
CallToBinMany == Len(txns) >= 0 /\ Encode("to_bin_many", to_bin_many(txns))

\* from_text_many(text.lines().map(|s| s.to_string()))
CallFromTextMany ==
    pc = "encoded" /\ Decode("from_text_many", {"to_text", "to_text_many"}, from_text_many(Lines(encoded.res.val)))
CallFromTextReader ==
    pc = "encoded" /\ Decode("from_text_reader", {"to_text", "to_text_many"}, from_text_reader(Cursor(encoded.res.val)))
CallFromCsv ==
    pc = "encoded" /\ Decode("from_csv", {"to_csv"}, from_csv(encoded.res.val))
CallFromCsvMany ==
    pc = "encoded" /\ Decode("from_csv_many", {"to_csv_many"}, from_csv_many(Lines(encoded.res.val)))
CallFromCsvReader ==
    pc = "encoded" /\ Decode("from_csv_reader", {"to_csv_many"}, from_csv_reader(Cursor(encoded.res.val)))
CallFromBinReader ==
    pc = "encoded" /\ Decode("from_bin_reader", {"to_bin", "to_bin_many"}, from_bin_reader(Cursor(encoded.res.val)))

(***************************************************************************)
(* The inputs.                                                             *)
(***************************************************************************)
\* the records files are made of
RecordA == TxData(1, "Deposit", 0, 100, 1000, 170000, "Success", <<97>>, "YpBankCsv")
RecordB == TxData(12345, "Transfer", 7, 300, -999, 65536, "Pending", <<195, 169, QUOTE, COMMA>>, "YpBankBin")

TxnSeqs == UNION { [1..n -> {RecordA, RecordB}] : n \in 0..MaxTxns }

(***************************************************************************)
(* lib: the decoders on streams that are not what an encoder returned.     *)
(* A stream is made from the bytes an encoder returned for records of      *)
(* TxnSeqs (it ends or fails early, or a magic, a length, the header or a  *)
(* row of it is replaced) and put in `reader`; `log` keeps how it was      *)
(* made.                                                                   *)
(***************************************************************************)
StreamUnchanged == UNCHANGED << program, args, fs, stdin, stdout, fault, data, output,
                                data_to_write, first_txn, second_txn, result, txns >>

\* the length of the first j frames of to_bin_many(txns)
FrameEnd(j) == Len(to_bin_many(SubSeq(txns, 1, j)).val)

\* s with the byte at index i replaced by b
SetByte(s, i, b) == [k \in 1..Len(s) |-> IF k = i THEN b ELSE s[k]]

MakeStream(how, after, stream) ==
    /\ program = "lib" /\ pc = "encoded"
    /\ encoded.fn = after
    /\ txns \in TxnSeqs
    /\ reader' = stream
    /\ log' = << how >>
    /\ pc' = "stream"
    /\ UNCHANGED << encoded, decoded >>
    /\ StreamUnchanged

\* a stream that ends (io_err false) or fails with an I/O error (io_err
\* true) after the first k bytes of the encoder's
CutStream ==
    /\ pc = "encoded"
    /\ \E after \in {"to_bin_many", "to_csv_many", "to_text_many"} :
       \E k \in 0..Len(encoded.res.val), io_err \in BOOLEAN :
          MakeStream("cut", after, Reader(SubSeq(encoded.res.val, 1, k), io_err))

\* a binary stream with byte o of the magic of frame j replaced
CorruptMagic ==
    /\ pc = "encoded"
    /\ \E j \in 1..Len(txns), o \in 1..4, b \in {0, 88} :
          MakeStream("magic", "to_bin_many",
                     Cursor(SetByte(encoded.res.val, FrameEnd(j - 1) + o, b)))

\* the body of one record (the frame less its magic and length) cut to
\* its first k bytes, the lowest byte of its description_len raised by d
MangleBody ==
    /\ pc = "encoded"
    /\ Len(txns) = 1
    /\ \E k \in 0..(Len(encoded.res.val) - 8), d \in 0..2 :
          /\ k < 46 => d = 0
          /\ LET body == SubSeq(encoded.res.val, 9, 8 + k)
             IN  MakeStream("body", "to_bin_many",
                            Cursor(IF k >= 46 THEN SetByte(body, 46, body[46] + d) ELSE body))

\* bytes that follow the description inside a body
SurplusBytes == { <<0>>, <<97, 98>>, BIN_MAGIC }

\* the body of one record with surplus bytes after the description, as
\* from_bin_reader hands it over when record_size is greater than
\* 46 + description_len
PadBody ==
    /\ pc = "encoded"
    /\ Len(txns) = 1
    /\ \E surplus \in SurplusBytes :
          MakeStream("surplus", "to_bin_many",
                     Cursor(SubSeq(encoded.res.val, 9, Len(encoded.res.val)) \o surplus))

\* the header lines from_csv_many and from_csv_reader are given
PaddedHeader == <<SPACE>> \o CSV_HEADER_LINE \o <<SPACE, SPACE>>
QuotedHeader == <<QUOTE>> \o K_TX_ID \o <<QUOTE>> \o SubSeq(CSV_HEADER_LINE, 6, Len(CSV_HEADER_LINE))
ShortHeader == Join(SubSeq(CSV_HEADERS, 1, 7), <<COMMA>>)
SwappedHeader ==
    Join(<<K_TX_ID, K_FROM_USER_ID, K_TX_TYPE, K_TO_USER_ID,
           K_AMOUNT, K_TIMESTAMP, K_STATUS, K_DESCRIPTION>>, <<COMMA>>)
HeaderLines == {CSV_HEADER_LINE, PaddedHeader, QuotedHeader, ShortHeader, SwappedHeader}

\* tokens that are no tx_type and no status
BadTxType == <<66, 79, 78, 85, 83>>  \* "BONUS"
BadStatus == <<68, 79, 78, 69>>      \* "DONE"

\* the eight fields of the CSV line of tx, as to_csv writes them
CsvRowFields(tx) ==
    << FormatU64(tx.tx_id), TxTypeToken(tx.tx_type), FormatU64(tx.from_user_id),
       FormatU64(tx.to_user_id), FormatI64(tx.amount), FormatU64(tx.timestamp),
       StatusToken(tx.status), <<QUOTE>> \o escape_csv_field(tx.description) \o <<QUOTE>> >>

RowFaults == {"tx_type", "status", "short", "long"}

\* the CSV line of tx with one fault in it
FaultyRow(tx, row_fault) ==
    LET f == CsvRowFields(tx) IN
    Join(CASE row_fault = "tx_type" -> [f EXCEPT ![2] = BadTxType]
           [] row_fault = "status" -> [f EXCEPT ![7] = BadStatus]
           [] row_fault = "short" -> SubSeq(f, 1, 7)
           [] row_fault = "long" -> Append(f, <<120>>),
         <<COMMA>>)

\* a CSV document: the header line, then the lines of txns, the j-th with
\* the fault (j = 0: every line as to_csv writes it)
CsvDocument(header, j, row_fault) ==
    Join(<<header>> \o [i \in 1..Len(txns) |->
                           IF i = j THEN FaultyRow(txns[i], row_fault) ELSE to_csv(txns[i]).val],
         <<LF>>) \o <<LF>>

MangleCsv ==
    /\ pc = "encoded"
    /\ \E header \in HeaderLines, j \in 0..Len(txns), row_fault \in RowFaults :
          /\ j = 0 => row_fault = "long"
          /\ MakeStream("csv", "to_csv_many", Cursor(CsvDocument(header, j, row_fault)))

\* a decoder called on the stream
ReadStream(fn, after, res) ==
    /\ program = "lib" /\ pc = "stream"
    /\ encoded.fn \in after
    /\ decoded' = [fn |-> fn, res |-> res]
    /\ pc' = "decoded"
    /\ UNCHANGED << encoded, reader, log >>
    /\ StreamUnchanged

ReadBinStream ==
    /\ pc = "stream" /\ log \notin {<<"body">>, <<"surplus">>}
    /\ ReadStream("from_bin_reader", {"to_bin_many"}, from_bin_reader(reader))
\* from_bin(&buf) on the bytes of a body
ReadBinBody ==
    /\ pc = "stream" /\ log \in {<<"body">>, <<"surplus">>}
    /\ ReadStream("from_bin", {"to_bin_many"}, from_bin(reader.bytes))
ReadCsvStream ==
    /\ pc = "stream"
    /\ ReadStream("from_csv_reader", {"to_csv_many"}, from_csv_reader(reader))
\* the lines of a String that was read without error
ReadCsvLines ==
    /\ pc = "stream" /\ ~reader.io_err /\ ValidUtf8(reader.bytes) = TRUE
    /\ ReadStream("from_csv_many", {"to_csv_many"}, from_csv_many(Lines(reader.bytes)))
ReadTextStream ==
    /\ pc = "stream"
    /\ ReadStream("from_text_reader", {"to_text_many"}, from_text_reader(reader))

(***************************************************************************)
(* lib: from_text on a HashMap and from_text_many on a list of lines, as   *)
(* the unit tests build them.  The map or the lines are kept in `args`.    *)
(***************************************************************************)
CallUnchanged == UNCHANGED << program, fs, stdin, stdout, fault, data, output,
                              data_to_write, first_txn, second_txn, result, txns >>

\* the map of the block of tx, the description between quotes or as it is
TextFields(tx, quoted) ==
    LET kv == << <<K_TX_ID, FormatU64(tx.tx_id)>>,
                 <<K_TX_TYPE, TxTypeToken(tx.tx_type)>>,
                 <<K_FROM_USER_ID, FormatU64(tx.from_user_id)>>,
                 <<K_TO_USER_ID, FormatU64(tx.to_user_id)>>,
                 <<K_AMOUNT, FormatI64(tx.amount)>>,
                 <<K_TIMESTAMP, FormatU64(tx.timestamp)>>,
                 <<K_STATUS, StatusToken(tx.status)>>,
                 <<K_DESCRIPTION, IF quoted THEN <<QUOTE>> \o tx.description \o <<QUOTE>>
                                            ELSE tx.description>> >>
    IN  [k \in {kv[i][1] : i \in 1..8} |-> kv[CHOOSE i \in 1..8 : kv[i][1] = k][2]]

\* a HashMap with the entries of the block of txns[1] less the keys of
\* `absent`
MakeFields ==
    /\ program = "lib" /\ pc = "encoded"
    /\ encoded.fn = "to_text"
    /\ \E absent \in SUBSET {CSV_HEADERS[k] : k \in 1..8}, quoted \in BOOLEAN :
          /\ txns \notin TxnSeqs => absent = {}
          /\ args' = [fields |-> [k \in DOMAIN TextFields(txns[1], quoted) \ absent |->
                                     TextFields(txns[1], quoted)[k]]]
    /\ log' = << "fields" >>
    /\ pc' = "fields"
    /\ UNCHANGED << encoded, decoded, reader >>
    /\ CallUnchanged

CallFromText ==
    /\ program = "lib" /\ pc = "fields"
    /\ decoded' = [fn |-> "from_text", res |-> from_text(args.fields)]
    /\ pc' = "decoded"
    /\ UNCHANGED << encoded, reader, log, args >>
    /\ CallUnchanged

\* the lines that separate blocks: an empty line, a line of spaces, and a
\* comment whose text is a key and a value ("  # TX_ID: 999")
CommentLine == <<SPACE, SPACE, HASH, SPACE>> \o K_TX_ID \o <<COLON, SPACE, 57, 57, 57>>
SeparatorLines == { <<>>, <<SPACE, SPACE>>, CommentLine }

\* one or two separator lines between two blocks; none or one before the
\* first block and after the last
Gaps == { <<a>> : a \in SeparatorLines } \cup { <<a, b>> : a \in SeparatorLines, b \in SeparatorLines }
Edges == { <<>> } \cup { <<a>> : a \in SeparatorLines }

\* the lines of the blocks of txns with `gap` between two blocks
BlockLines(gap) == Join([i \in 1..Len(txns) |-> Lines(to_text(txns[i]).val)], gap)

\* a list of lines of valid blocks, as the tests of from_text_many write it
MakeLines ==
    /\ program = "lib" /\ pc = "encoded"
    /\ encoded.fn = "to_text_many"
    /\ txns \in TxnSeqs
    /\ \E lead \in Edges, gap \in Gaps, trail \in Edges :
          args' = [lines |-> lead \o BlockLines(gap) \o trail]
    /\ log' = << "lines" >>
    /\ pc' = "lines"
    /\ UNCHANGED << encoded, decoded, reader >>
    /\ CallUnchanged

CallFromTextManyLines ==
    /\ program = "lib" /\ pc = "lines"
    /\ decoded' = [fn |-> "from_text_many", res |-> from_text_many(args.lines)]
    /\ pc' = "decoded"
    /\ UNCHANGED << encoded, reader, log, args >>
    /\ CallUnchanged

(***************************************************************************)
(* lib: inputs in which the k-th record is the first invalid one.  The     *)
(* records before it are those of txns, the k-th has the fault `kind`,     *)
(* the records after it the fault `later` ("none": as the encoder writes   *)
(* them); `args` keeps k and the two faults.                               *)
(***************************************************************************)
BinFaults == {"tx_type", "status"}
TextFaults == {"tx_type", "status", "missing", "no_colon"}

\* the frame of tx with a tx_type or status byte that is no code
FaultyFrame(tx, kind) ==
    CASE kind = "tx_type" -> SetByte(to_bin(tx).val, 17, 3)
      [] kind = "status" -> SetByte(to_bin(tx).val, 50, 7)
      [] kind = "none" -> to_bin(tx).val

\* the CSV line of tx with the kind
FaultyLineOf(tx, kind) ==
    IF kind = "none" THEN to_csv(tx).val ELSE FaultyRow(tx, kind)

\* the lines of the block of tx with the kind: a token that is no tx_type
\* or status, the line of FROM_USER_ID left out, a line without a colon
FaultyBlock(tx, kind) ==
    LET l == Lines(to_text(tx).val) IN
    CASE kind = "tx_type" -> [l EXCEPT ![2] = K_TX_TYPE \o <<COLON, SPACE>> \o BadTxType]
      [] kind = "status" -> [l EXCEPT ![7] = K_STATUS \o <<COLON, SPACE>> \o BadStatus]
      [] kind = "missing" -> SubSeq(l, 1, 2) \o SubSeq(l, 4, 8)
      [] kind = "no_colon" -> [l EXCEPT ![4] = BadStatus]
      [] kind = "none" -> l

\* the kind of the i-th record of an input whose first invalid record is
\* the k-th
FaultAt(i, k, kind, later) ==
    IF i < k THEN "none" ELSE IF i = k THEN kind ELSE later

\* the inputs made of the records rs
FaultyFrames(rs, k, kind, later) ==
    Join([i \in 1..Len(rs) |-> FaultyFrame(rs[i], FaultAt(i, k, kind, later))], <<>>)
FaultyCsv(rs, k, kind, later) ==
    Join(<<CSV_HEADER_LINE>> \o [i \in 1..Len(rs) |-> FaultyLineOf(rs[i], FaultAt(i, k, kind, later))],
         <<LF>>) \o <<LF>>
FaultyText(rs, k, kind, later) ==
    Join([i \in 1..Len(rs) |-> FaultyBlock(rs[i], FaultAt(i, k, kind, later))], << <<>> >>)

\* the choices of k and of the two faults
FaultChoices(faults) ==
    { c \in [k : 1..Len(txns), fault : faults, later : faults \cup {"none"}] :
        /\ c.later # c.fault
        /\ c.k = Len(txns) => c.later = "none" }

\* a binary or CSV stream whose k-th record is the first invalid one
MangleRecords ==
    /\ program = "lib" /\ pc = "encoded"
    /\ txns \in TxnSeqs
    /\ \/ /\ encoded.fn = "to_bin_many"
          /\ \E c \in FaultChoices(BinFaults) :
                /\ args' = c
                /\ reader' = Cursor(FaultyFrames(txns, c.k, c.fault, c.later))
       \/ /\ encoded.fn = "to_csv_many"
          /\ \E c \in FaultChoices(RowFaults) :
                /\ args' = c
                /\ reader' = Cursor(FaultyCsv(txns, c.k, c.fault, c.later))
    /\ log' = << "faults" >>
    /\ pc' = "stream"
    /\ UNCHANGED << encoded, decoded >>
    /\ CallUnchanged

\* a list of lines whose k-th block is the first invalid one
MangleBlocks ==
    /\ program = "lib" /\ pc = "encoded"
    /\ txns \in TxnSeqs
    /\ encoded.fn = "to_text_many"
    /\ \E c \in FaultChoices(TextFaults) :
          args' = [k |-> c.k, fault |-> c.fault, later |-> c.later,
                   lines |-> FaultyText(txns, c.k, c.fault, c.later)]
    /\ log' = << "faults" >>
    /\ pc' = "lines"
    /\ UNCHANGED << encoded, decoded, reader >>
    /\ CallUnchanged

(***************************************************************************)
(* The records given to the encoders.                                      *)
(***************************************************************************)
\* the characters descriptions are made of: a letter, the characters the
\* three formats give a meaning to, and one two-byte character
Alphabet == { <<97>>, <<QUOTE>>, <<COMMA>>, <<LF>>, <<COLON>>, <<HASH>>, <<195, 169>> }

RECURSIVE DescsUpTo(_)
DescsUpTo(n) ==
    IF n = 0 THEN { <<>> }
    ELSE DescsUpTo(n - 1) \cup { d \o c : d \in DescsUpTo(n - 1), c \in Alphabet }

Descriptions == DescsUpTo(MaxDescLen)

\* single records: every description on one record, and every combination
\* of the other fields on one description
TxRecords ==
    { TxData(12345, "Transfer", 0, 100, -999, 170000, "Pending", d, "YpBankCsv") : d \in Descriptions }
    \cup
    { TxData(id, ty, 0, 100, am, 170000, st, <<97, COMMA>>, fmt) :
        id \in {1, 12345}, ty \in TxType, am \in {-999, 0, 1000}, st \in Status, fmt \in Format }

\* a text file as the fixtures write it: blocks separated by an empty line
TextDocument(records) ==
    Join([i \in DOMAIN records |-> to_text(records[i]).val], <<LF, LF>>)

\* a well-formed file of the format
Document(records, format) ==
    CASE format = "YpBankBin" -> to_bin_many(records).val
      [] format = "YpBankCsv" -> to_csv_many(records).val
      [] format = "YpBankText" -> TextDocument(records)

OtherFormat(format) ==
    CASE format = "YpBankBin" -> "YpBankCsv"
      [] format = "YpBankCsv" -> "YpBankText"
      [] format = "YpBankText" -> "YpBankBin"

\* what a resource declared as `format` holds: a file of that format, a
\* file of another format, or a file of that format whose read fails
Conditions == {"good", "other_format", "io_error"}
Stored(records, format, condition) ==
    IF condition = "other_format"
    THEN FileOf(Document(records, OtherFormat(format)), FALSE)
    ELSE FileOf(Document(records, format), condition = "io_error")

Faults == {"none", "create", "write", "flush"}

InitIdle ==
    /\ reader = NoValue /\ data = NoValue /\ output = NoValue /\ data_to_write = NoValue
    /\ first_txn = NoValue /\ second_txn = NoValue /\ result = NoValue
    /\ log = <<>> /\ stdout = <<>>
    /\ txns = NoValue /\ encoded = NoValue /\ decoded = NoValue

(***************************************************************************)
(* cli-converter                                                           *)
(***************************************************************************)
InitConverter ==
    /\ program = "cli-converter" /\ pc = "open_source"
    /\ args \in [from : {Console, File("in"), File("missing")}, from_format : Format,
                 to : {Console, File("out"), File("in")}, to_format : Format]
    /\ fault \in Faults
    /\ \E records \in TxnSeqs, condition \in Conditions :
          LET f == Stored(records, args.from_format, condition) IN
          /\ fs = [p \in Paths |-> IF p = "in" THEN f ELSE NoFile]
          /\ stdin = [bytes |-> f.bytes, io_err |-> f.io_err]
    /\ InitIdle

NextConverter ==
    \/ ConvOpenSource
    \/ ConvDecodeSource
    \/ ConvCreateDest
    \/ ConvEncode
    \/ ConvWriteAll
    \/ ConvFlush

SpecConverter == InitConverter /\ [][NextConverter]_vars

(***************************************************************************)
(* cli-comparer                                                            *)
(***************************************************************************)
InitComparer ==
    /\ program = "cli-comparer" /\ pc = "open_first"
    /\ args \in [first_from : {File("in"), File("missing")}, first_format : Format,
                 second_from : {File("in2"), File("missing")}, second_format : Format]
    /\ fault = "none"
    /\ \E r1 \in TxnSeqs, r2 \in TxnSeqs, c1 \in {"good", "other_format"}, c2 \in {"good", "other_format"} :
          fs = [p \in Paths |->
                  CASE p = "in" -> Stored(r1, args.first_format, c1)
                    [] p = "in2" -> Stored(r2, args.second_format, c2)
                    [] OTHER -> NoFile]
    /\ stdin = [bytes |-> <<>>, io_err |-> FALSE]
    /\ InitIdle

NextComparer ==
    \/ CmpOpenFirst
    \/ CmpDecodeFirst
    \/ CmpOpenSecond
    \/ CmpDecodeSecond
    \/ CmpCompare

SpecComparer == InitComparer /\ [][NextComparer]_vars

(***************************************************************************)
(* lib                                                                     *)
(***************************************************************************)
InitLib ==
    /\ program = "lib" /\ pc = "input"
    /\ args = NoValue /\ fault = "none"
    /\ fs = [p \in Paths |-> NoFile]
    /\ stdin = [bytes |-> <<>>, io_err |-> FALSE]
    /\ reader = NoValue /\ data = NoValue /\ output = NoValue /\ data_to_write = NoValue
    /\ first_txn = NoValue /\ second_txn = NoValue /\ result = NoValue
    /\ log = <<>> /\ stdout = <<>>
    /\ txns \in { <<r>> : r \in TxRecords } \cup TxnSeqs
    /\ encoded = NoValue /\ decoded = NoValue

NextLib ==
    \/ CallToText
    \/ CallToTextMany
    \/ CallToCsv
    \/ CallToCsvMany
    \/ CallToBin
    \/ CallToBinMany
    \/ CallFromTextMany
    \/ CallFromTextReader
    \/ CallFromCsv
    \/ CallFromCsvMany
    \/ CallFromCsvReader
    \/ CallFromBinReader
    \/ CutStream
    \/ CorruptMagic
    \/ MangleBody
    \/ PadBody
    \/ MangleCsv
    \/ ReadBinStream
    \/ ReadBinBody
    \/ ReadCsvStream
    \/ ReadCsvLines
    \/ ReadTextStream
    \/ MakeFields
    \/ CallFromText
    \/ MakeLines
    \/ CallFromTextManyLines
    \/ MangleRecords
    \/ MangleBlocks

SpecLib == InitLib /\ [][NextLib]_vars

(***************************************************************************)
(* Properties.                                                             *)
(***************************************************************************)
ConverterSucceeded == program = "cli-converter" /\ pc = "done" /\ result.ok

\* the destination read back through the dispatch read in the destination format
ReadBack == read_from_resource(Cursor(DestBytes(args.to)), args.to_format)

\* the records of `back` are those of `source`, the format tag left aside
SameRecords(back, source) ==
    /\ Len(back) = Len(source)
    /\ \A i \in 1..Len(source) : SameSemantic(back[i], source[i])

\* C1: after process_convert_logic reports success, reading the destination
\* back in the destination format succeeds and yields as many records as the
\* source held, each equal to the source's in the eight semantic fields.
C1_ConverterPreservesData ==
    ConverterSucceeded => (ReadBack.ok /\ SameRecords(ReadBack.val, data))

\* C2: the bytes write_to_resource writes for YpBankCsv are the header line
\* followed by one line per record, the document to_csv_many produces.
C2_CsvWriteHasHeader ==
    (program = "cli-converter" /\ pc \in {"write_all", "flush"} /\ args.to_format = "YpBankCsv")
        => data_to_write = to_csv_many(data).val

\* the empty lines of a text of n blocks of eight lines are the lines
\* 9, 18, ..., 9 (n - 1), and the text has 9 n - 1 lines
BlankLineBetweenBlocks(text, n) ==
    LET ls == Lines(text) IN
    /\ Len(ls) = 9 * n - 1
    /\ \A k \in 1..Len(ls) : (ls[k] = <<>>) <=> (k % 9 = 0)

\* C3: the output of to_text_many for two records or more has exactly one
\* empty line between consecutive eight-line blocks and none after the last.
C3_TextBlocksSeparatedByBlankLine ==
    (program = "lib" /\ pc # "input" /\ encoded.fn = "to_text_many" /\ Len(txns) >= 2)
        => BlankLineBetweenBlocks(encoded.res.val, Len(txns))

\* the decoder returned exactly one record, equal to the encoded one in the
\* eight semantic fields and tagged with the format
OneRecordBack(format) ==
    /\ decoded.res.ok
    /\ Len(decoded.res.val) = 1
    /\ SameSemantic(decoded.res.val[1], txns[1])
    /\ decoded.res.val[1].format = format

\* the decoder was called on what the encoder returned
RoundTripDone(encoder, decoder) ==
    program = "lib" /\ pc = "decoded" /\ log = <<>> /\ encoded.fn = encoder /\ decoded.fn = decoder

\* C4: for every record, whatever its description, from_text_many on the
\* lines of to_text(r) returns exactly one record equal to r in the eight
\* semantic fields and tagged YpBankText.
C4_TextRoundTrip ==
    RoundTripDone("to_text", "from_text_many") => OneRecordBack("YpBankText")

\* C5: for every record, from_bin_reader on to_bin(r) returns exactly one
\* record equal to r in the eight semantic fields and tagged YpBankBin.
C5_BinRoundTrip ==
    RoundTripDone("to_bin", "from_bin_reader") => OneRecordBack("YpBankBin")

C5_Witness ==
    /\ RoundTripDone("to_bin", "from_bin_reader")
    /\ txns[1].amount < 0
    /\ txns[1].description = <<195, 169>>
    /\ decoded.res.ok
    /\ decoded.res.val[1].amount = txns[1].amount

\* the last column of a CSV line: the description between two quotes, each
\* quote of the description written twice
QuotedDescription(description) ==
    LET quotes == {i \in DOMAIN description : description[i] = QUOTE}
        body == [m \in 1..(Len(description) + Cardinality(quotes)) |->
                    IF \E k \in DOMAIN description :
                          m = k + Cardinality({x \in quotes : x < k})
                    THEN description[CHOOSE k \in DOMAIN description :
                                        m = k + Cardinality({x \in quotes : x < k})]
                    ELSE QUOTE]
    IN  <<QUOTE>> \o body \o <<QUOTE>>

EndsWith(s, suffix) ==
    Len(s) >= Len(suffix) /\ SubSeq(s, Len(s) - Len(suffix) + 1, Len(s)) = suffix

\* C6: for a description with quotes, commas or newlines, to_csv writes it
\* between double quotes with each quote doubled, and from_csv on that line
\* returns a record with the description and every other field unchanged.
C6_CsvEscapingRoundTrip ==
    (program = "lib" /\ pc # "input" /\ encoded.fn = "to_csv"
       /\ (\E b \in {QUOTE, COMMA, LF} : Contains(txns[1].description, b)))
        => /\ encoded.res.ok
           /\ EndsWith(encoded.res.val, <<COMMA>> \o QuotedDescription(txns[1].description))
           /\ (pc = "decoded" /\ decoded.fn = "from_csv") =>
                 (decoded.res.ok /\ SameSemantic(decoded.res.val, txns[1]))

C6_Witness ==
    /\ RoundTripDone("to_csv", "from_csv")
    /\ txns[1].description = <<QUOTE, COMMA, LF>>
    /\ decoded.res.ok
    /\ decoded.res.val.description = <<QUOTE, COMMA, LF>>

ComparerReturned == program = "cli-comparer" /\ pc = "done"

\* the two decoded sequences hold the same logical records
SameLogicalRecords == SameRecords(first_txn, second_txn)

\* C7: the same non-empty logical record set decoded once as CSV and once as
\* binary compares as not equal, and the records differ in the format tag only.
C7_CrossFormatNotEqual ==
    (ComparerReturned /\ result.ok
       /\ {args.first_format, args.second_format} = {"YpBankCsv", "YpBankBin"}
       /\ Len(first_txn) > 0 /\ SameLogicalRecords)
        => /\ result.result = FALSE
           /\ \A i \in 1..Len(first_txn) : first_txn[i].format # second_txn[i].format

C7_Witness ==
    /\ ComparerReturned /\ result.ok
    /\ args.first_format = "YpBankCsv" /\ args.second_format = "YpBankBin"
    /\ Len(first_txn) = 2 /\ SameLogicalRecords
    /\ result.result = FALSE

\* all nine fields of two records agree
NineFieldsEqual(a, b) == SameSemantic(a, b) /\ a.format = b.format

IsPrefix(a, b) == Len(a) < Len(b) /\ \A i \in 1..Len(a) : a[i] = b[i]

\* a and b hold the same records, not in the same order
Reordered(a, b) ==
    /\ Len(a) = Len(b)
    /\ a # b
    /\ \A i \in 1..Len(a) :
          Cardinality({j \in 1..Len(a) : a[j] = a[i]}) = Cardinality({j \in 1..Len(b) : b[j] = a[i]})

\* C8: when both resources decode, the result is true if and only if the
\* sequences have the same length and agree in all nine fields at every
\* index; a reordering or a strict prefix gives false.
C8_StructuralEquality ==
    (ComparerReturned /\ result.ok)
        => /\ result.result <=>
                 (/\ Len(first_txn) = Len(second_txn)
                  /\ \A i \in 1..Len(first_txn) : NineFieldsEqual(first_txn[i], second_txn[i]))
           /\ Reordered(first_txn, second_txn) => ~result.result
           /\ (IsPrefix(first_txn, second_txn) \/ IsPrefix(second_txn, first_txn)) => ~result.result

C8_Witness ==
    /\ ComparerReturned /\ result.ok
    /\ Len(first_txn) = 2
    /\ Reordered(first_txn, second_txn)
    /\ result.result = FALSE

\* what read returns for a resource; the comparer leaves the files as
\* they were, so this is what its call of read returned
ReadOf(resource, format) ==
    LET o == read_open(resource) IN
    IF o.ok THEN read_from_resource(o.val, format) ELSE o

FirstRead == ReadOf(args.first_from, args.first_format)
SecondRead == ReadOf(args.second_from, args.second_format)

SecondTouched ==
    \E i \in 1..Len(log) :
        log[i] \in {"second_open", "second_open_failed", "second_decoded", "second_decode_failed"}

\* C9: when opening or decoding a resource fails the comparer returns
\* Err(Prepare) with that failure and no Ok boolean; a failure of the first
\* side is the one reported, and the second resource is then not opened.
C9_AbortsOnFailure ==
    ComparerReturned
        => /\ ~FirstRead.ok => (result = Prepare(FirstRead) /\ ~SecondTouched)
           /\ (FirstRead.ok /\ ~SecondRead.ok) => result = Prepare(SecondRead)
           /\ result.ok => (FirstRead.ok /\ SecondRead.ok)

C9_Witness ==
    /\ ComparerReturned
    /\ log = <<"first_open", "first_decode_failed">>
    /\ ~SecondRead.ok
    /\ result = Prepare(FirstRead)

DestActions == {"dest_create", "dest_create_failed", "dest_write", "dest_write_failed",
                "dest_flush", "dest_flush_failed"}
SourceFailures == {"source_open_failed", "source_decode_failed"}

InLog(events) == \E i \in 1..Len(log) : log[i] \in events

\* every action on the destination comes after the source was decoded
DestAfterDecode ==
    \A k \in 1..Len(log) :
        log[k] \in DestActions => \E j \in 1..(k - 1) : log[j] = "source_decoded"

\* a failed source ends the call with an error and no action on the destination
SourceFailureAborts ==
    InLog(SourceFailures) => (pc = "done" /\ ~result.ok /\ ~InLog(DestActions))

\* a step that changes a file, standard output or the writer
DestTouched == fs' # fs \/ stdout' # stdout \/ output' # output

\* C10: the first action on the destination comes after the whole source
\* was decoded; when opening or decoding the source fails the destination is
\* never created, truncated or written and the call returns an error.
C10_DecodeBeforeWrite ==
    /\ [](program = "cli-converter" => (DestAfterDecode /\ SourceFailureAborts))
    /\ [][DestTouched => InLog({"source_decoded"})]_vars

C10_Witness ==
    /\ program = "cli-converter" /\ pc = "done"
    /\ log = <<"source_open", "source_decode_failed">>
    /\ args.from = File("in") /\ args.to = File("in")
    /\ fs["in"].bytes # <<>>
    /\ ~result.ok

\* the last n entries of the log
LogTail(n) == SubSeq(log, Len(log) - n + 1, Len(log))

WriteFailures == {"dest_create_failed", "dest_write_failed", "dest_flush_failed"}

\* write_to_resource returned Ok: the destination was created, every record
\* was encoded, write_all took the whole encoded buffer and flush put it in
\* the destination, in that order
WroteAndFlushed ==
    /\ Len(log) >= 3
    /\ LogTail(3) = <<"dest_create", "dest_write", "dest_flush">>
    /\ data_to_write = encode_for_resource(data, args.to_format).val
    /\ output.buffer = data_to_write
    /\ EndsWith(DestBytes(args.to), data_to_write)

\* C11: write_to_resource returns Ok only after the destination was
\* created, all records were encoded, write_all of the whole encoded buffer
\* and then flush succeeded, in that order; when the creation, the write or
\* the flush fails the result is Err, and the result becomes Ok in no step
\* but a successful flush.
C11_OkOnlyAfterFlush ==
    /\ [](ConverterSucceeded => WroteAndFlushed)
    /\ []((program = "cli-converter" /\ pc = "done" /\ InLog(WriteFailures)) => ~result.ok)
    /\ [][(result' # result /\ result'.ok) => (pc = "flush" /\ fault # "flush" /\ log' = Append(log, "dest_flush"))]_vars

C11_Witness ==
    /\ ConverterSucceeded
    /\ WroteAndFlushed
    /\ Len(data) = 2
    /\ args.to.kind = "File"


\* a decoder returned on a stream made the way `how`
StreamDecoded(how, fn) ==
    program = "lib" /\ pc = "decoded" /\ log = <<how>> /\ decoded.fn = fn

\* the lengths at which a stream of the frames of txns is at a record boundary
Boundaries == { FrameEnd(j) : j \in 0..Len(txns) }

\* C12: from_bin_reader returns Ok exactly when the stream is a
\* concatenation of complete framed records; a stream that ends after 1 to
\* 3 bytes of a magic, inside the length or before the declared number of
\* body bytes returns an error.
C12_OkOnlyAtRecordBoundary ==
    (StreamDecoded("cut", "from_bin_reader") /\ ~reader.io_err)
        => (decoded.res.ok <=> Len(reader.bytes) \in Boundaries)

\* the part of C12 that the code keeps: a stream that ends inside the
\* length or the body of a frame returns an error, and one that ends at a
\* record boundary returns the records of the complete frames
EndsInsideLengthOrBody ==
    \E j \in 1..Len(txns) :
        /\ Len(reader.bytes) >= FrameEnd(j - 1) + 4
        /\ Len(reader.bytes) < FrameEnd(j)

BinStreamEndKept ==
    (StreamDecoded("cut", "from_bin_reader") /\ ~reader.io_err)
        => /\ EndsInsideLengthOrBody => ~decoded.res.ok
           /\ \A j \in 0..Len(txns) :
                 Len(reader.bytes) = FrameEnd(j) =>
                    (decoded.res.ok /\ SameRecords(decoded.res.val, SubSeq(txns, 1, j)))

\* C13: when the underlying reader returns an I/O error at any point of
\* the decode, the magic of a binary record included, from_bin_reader,
\* from_csv_reader and from_text_reader return an error and never an Ok
\* sequence of the records read before the failure.
C13_ReadFailuresReported ==
    (program = "lib" /\ pc = "decoded" /\ log = <<"cut">> /\ reader.io_err
       /\ decoded.fn \in {"from_bin_reader", "from_csv_reader", "from_text_reader"})
        => ~decoded.res.ok

\* the part of C13 that the code keeps: the CSV and the text path report
\* every read failure, the binary path those inside a length or a body
ReadFailuresKept ==
    (program = "lib" /\ pc = "decoded" /\ log = <<"cut">> /\ reader.io_err)
        => /\ decoded.fn \in {"from_csv_reader", "from_text_reader"} => ~decoded.res.ok
           /\ (decoded.fn = "from_bin_reader" /\ EndsInsideLengthOrBody) => ~decoded.res.ok


\* C14: whenever from_bin_reader reads at a record boundary (the start of
\* the stream or directly after a complete record) 4 bytes that differ from
\* YPBN, it returns the ParseErr 'Invalid MAGIC number' and none of the
\* records decoded before.
C14_InvalidMagicRejected ==
    StreamDecoded("magic", "from_bin_reader") => decoded.res = ParseErr("Invalid MAGIC number")

\* the magic of the second frame is not YPBN, the first frame is complete
C14_Witness ==
    /\ StreamDecoded("magic", "from_bin_reader")
    /\ Len(txns) = 2
    /\ SubSeq(reader.bytes, 1, FrameEnd(1)) = to_bin(txns[1]).val
    /\ SubSeq(reader.bytes, FrameEnd(1) + 1, FrameEnd(1) + 4) # BIN_MAGIC
    /\ decoded.res = ParseErr("Invalid MAGIC number")


\* the 46 fixed bytes of the body are there and well formed, and the
\* declared description_len exceeds the bytes that remain after them
DescriptionOverrun(body) ==
    /\ Len(body) >= 46
    /\ body[9] <= 2 /\ body[42] <= 2
    /\ BEValue(body, 43, 4) > Len(body) - 46

\* C15: for every body whose 46 fixed bytes are well formed and whose
\* declared description_len exceeds the bytes remaining in the body,
\* from_bin returns the ParseErr 'DESCRIPTION length exceeds body', and the
\* cursor never passes the end of the body.
C15_LengthOverrunRejected ==
    StreamDecoded("body", "from_bin") =>
        /\ from_bin_position(reader.bytes) <= Len(reader.bytes)
        /\ DescriptionOverrun(reader.bytes) =>
              /\ decoded.res = ParseErr("DESCRIPTION length exceeds body")
              /\ from_bin_position(reader.bytes) = 46

\* some bytes of the description are there, fewer than declared
C15_Witness ==
    /\ StreamDecoded("body", "from_bin")
    /\ DescriptionOverrun(reader.bytes)
    /\ Len(reader.bytes) > 46
    /\ decoded.res = ParseErr("DESCRIPTION length exceeds body")


\* byte k (0 the least significant) of the two's complement of v, for
\* -2^31 <= v < 2^31 in any width of 4 bytes or more
ByteOf(v, k) ==
    IF v >= 0 THEN (IF k >= 4 THEN 0 ELSE (v \div (256 ^ k)) % 256)
    ELSE 255 - (IF k >= 4 THEN 0 ELSE (((0 - v) - 1) \div (256 ^ k)) % 256)

\* the w bytes of s from index i are v, big-endian
IsBigEndian(s, i, w, v) ==
    \A k \in 0..(w - 1) : s[i + w - 1 - k] = ByteOf(v, k)

\* s is the frame of the record r
IsFrameOf(s, r) ==
    LET L == 46 + Len(r.description) IN
    /\ Len(s) = 8 + L
    /\ SubSeq(s, 1, 4) = <<89, 80, 66, 78>>
    /\ IsBigEndian(s, 5, 4, L)
    /\ IsBigEndian(s, 9, 8, r.tx_id)
    /\ s[17] = (CASE r.tx_type = "Deposit" -> 0 [] r.tx_type = "Transfer" -> 1 [] r.tx_type = "Withdrawal" -> 2)
    /\ IsBigEndian(s, 18, 8, r.from_user_id)
    /\ IsBigEndian(s, 26, 8, r.to_user_id)
    /\ IsBigEndian(s, 34, 8, r.amount)
    /\ IsBigEndian(s, 42, 8, r.timestamp)
    /\ s[50] = (CASE r.status = "Success" -> 0 [] r.status = "Failure" -> 1 [] r.status = "Pending" -> 2)
    /\ IsBigEndian(s, 51, 4, Len(r.description))
    /\ SubSeq(s, 55, Len(s)) = r.description

ToBinReturned == program = "lib" /\ pc \in {"encoded", "decoded"} /\ encoded.fn = "to_bin"

\* C16: for every record r, to_bin(r) is the 4 bytes YPBN, a 4-byte
\* big-endian length L = 46 + the byte length of the description, then
\* exactly L body bytes: tx_id u64, tx_type u8, from_user_id u64,
\* to_user_id u64, amount i64, timestamp u64, status u8, description_len
\* u32 and the description bytes, big-endian and in that order.
C16_BinFrameStructure ==
    ToBinReturned => (encoded.res.ok /\ IsFrameOf(encoded.res.val, txns[1]))

C16_Witness ==
    /\ ToBinReturned
    /\ txns[1].amount < 0
    /\ txns[1].tx_id > 255
    /\ txns[1].status = "Pending"
    /\ Len(txns[1].description) = 3
    /\ IsFrameOf(encoded.res.val, txns[1])


\* the frames of the records of rs one after the other, in the order of rs
FramesOf(rs) == Join([i \in DOMAIN rs |-> to_bin(rs[i]).val], <<>>)

ToBinManyReturned == program = "lib" /\ pc \in {"encoded", "stream", "decoded"} /\ encoded.fn = "to_bin_many"

\* C17: for every sequence rs, to_bin_many(rs) is the concatenation of
\* to_bin(r) for r in rs in input order (no bytes for the empty sequence),
\* and from_bin_reader of that output returns len(rs) records in the same
\* order with the same semantic fields.
C17_BinManyIsConcatenation ==
    /\ ToBinManyReturned =>
          /\ encoded.res = Ok(FramesOf(txns))
          /\ Len(txns) = 0 => encoded.res.val = <<>>
    /\ RoundTripDone("to_bin_many", "from_bin_reader") =>
          (decoded.res.ok /\ SameRecords(decoded.res.val, txns))

C17_Witness ==
    /\ RoundTripDone("to_bin_many", "from_bin_reader")
    /\ Len(txns) = 2
    /\ txns[1] # txns[2]
    /\ encoded.res.val = to_bin(txns[1]).val \o to_bin(txns[2]).val
    /\ Len(decoded.res.val) = 2
    /\ SameSemantic(decoded.res.val[2], txns[2])


\* the first line of the stream
FirstLine == Lines(reader.bytes)[1]

\* a decoder returned on a CSV document with one of the header lines
CsvDocumentDecoded(fn) == StreamDecoded("csv", fn)

\* from_csv_many went past the header: it returned the records or the
\* error of a data line
PastHeaderOfLines == decoded.res.ok \/ decoded.res.text = "Error parsing line"

\* C18: from_csv_many returns the 'Invalid header' error, before parsing
\* any data line, for every first line that after trimming is not
\* byte-identical to the canonical header line (a missing column, the same
\* eight names in another order), and accepts the first line only when it
\* is identical after trimming.
C18_CsvManyStrictHeader ==
    CsvDocumentDecoded("from_csv_many") =>
        IF FirstLine \in {CSV_HEADER_LINE, PaddedHeader}
        THEN PastHeaderOfLines
        ELSE decoded.res = ParseErrArg("Invalid header", FirstLine)

\* the header has the eight names in another order, a data line is faulty
C18_Witness ==
    /\ CsvDocumentDecoded("from_csv_many")
    /\ FirstLine = SwappedHeader
    /\ Len(txns) = 2
    /\ ~from_csv(Lines(reader.bytes)[2]).ok
    /\ decoded.res = ParseErrArg("Invalid header", SwappedHeader)

\* from_csv_reader went past the header: it returned the records or the
\* error of a data row
PastHeaderOfReader ==
    decoded.res.ok \/ decoded.res.text \in {"CSV parse error on row", "Field error on row"}

\* C19: from_csv_reader compares the parsed header fields position by
\* position with the eight expected column names and returns the 'Invalid
\* CSV header' error, without decoding any data row, whenever the number of
\* header fields is not 8 or any position differs.
C19_CsvReaderPositionalHeader ==
    CsvDocumentDecoded("from_csv_reader") =>
        IF FirstLine \in {CSV_HEADER_LINE, QuotedHeader}
        THEN PastHeaderOfReader
        ELSE decoded.res = ParseErr("Invalid CSV header")

\* TX_TYPE and FROM_USER_ID are swapped in the header, a data row is faulty
C19_Witness ==
    /\ CsvDocumentDecoded("from_csv_reader")
    /\ FirstLine = SwappedHeader
    /\ Len(txns) = 2
    /\ ~from_csv(Lines(reader.bytes)[2]).ok
    /\ decoded.res = ParseErr("Invalid CSV header")


\* the number of the one line of the document that from_csv refuses
FaultyLine == CHOOSE i \in 2..Len(Lines(reader.bytes)) : ~from_csv(Lines(reader.bytes)[i]).ok

\* the fields of that line
FaultyFields == CsvFields(Lines(reader.bytes)[FaultyLine], 1, <<>>).val

\* from_csv_many or from_csv_reader returned on a document with the
\* canonical header and one faulty data row
FaultyRowDecoded ==
    /\ program = "lib" /\ pc = "decoded" /\ log = <<"csv">>
    /\ decoded.fn \in {"from_csv_many", "from_csv_reader"}
    /\ FirstLine = CSV_HEADER_LINE
    /\ \E i \in 2..Len(Lines(reader.bytes)) : ~from_csv(Lines(reader.bytes)[i]).ok

\* what the message of the returned error is made of: its text, the
\* number and the argument formatted into it, and the Display of the error
\* it wraps.  The field-level detail is in it when the invalid token is its
\* argument, or when the wrapped message is the one that names the
\* expected and the actual number of fields.
DetailInMessage ==
    /\ Len(FaultyFields) = 8 =>
          \E k \in {2, 7} : FaultyFields[k] \in {BadTxType, BadStatus} /\ decoded.res.arg = FaultyFields[k]
    /\ Len(FaultyFields) # 8 =>
          decoded.res.cause \in {"Expected 8 fields, got", "UnequalLengths"}

\* C20: when a data row fails in from_csv_many or from_csv_reader, the
\* message of the returned error contains the line or row number and the
\* field-level detail of the record parser: the invalid token for a bad
\* TX_TYPE or STATUS, the expected count 8 and the actual count for a row
\* with the wrong number of fields.
C20_RowErrorsKeepDetail ==
    FaultyRowDecoded =>
        /\ ~decoded.res.ok
        /\ decoded.res.num = FaultyLine
        /\ DetailInMessage

\* the part of C20 that the code keeps: the error has the number of the
\* line or row, and the csv reader's own message for a row of 7 or 9
\* fields in from_csv_reader names both counts
RowNumberKept ==
    FaultyRowDecoded =>
        /\ ~decoded.res.ok
        /\ decoded.res.num = FaultyLine
        /\ decoded.res.text \in {"Error parsing line", "Field error on row", "CSV parse error on row"}
        /\ (decoded.fn = "from_csv_reader" /\ Len(FaultyFields) # 8) => decoded.res.cause = "UnequalLengths"
        /\ (decoded.fn = "from_csv_many" \/ Len(FaultyFields) = 8) =>
              (decoded.res.cause = "parser -> global error" /\ decoded.res.arg = <<>>)


\* the eight required keys in the order from_text looks them up
RequiredKeys ==
    <<K_TX_ID, K_TX_TYPE, K_FROM_USER_ID, K_TO_USER_ID, K_AMOUNT, K_TIMESTAMP, K_STATUS, K_DESCRIPTION>>

\* the positions in RequiredKeys of the keys the map has no entry for
MissingKeys == {k \in 1..8 : RequiredKeys[k] \notin DOMAIN args.fields}

FromTextReturned == StreamDecoded("fields", "from_text")

\* C21: from_text on a block with valid values and no entry for a required
\* key K returns the ParseErr 'Missing field: K', naming exactly K; when
\* several keys are missing the error names the first missing one in the
\* order TX_ID, TX_TYPE, FROM_USER_ID, TO_USER_ID, AMOUNT, TIMESTAMP,
\* STATUS, DESCRIPTION.
C21_TextMissingField ==
    FromTextReturned =>
        IF MissingKeys = {} THEN decoded.res.ok
        ELSE decoded.res = ParseErrArg("Missing field", RequiredKeys[MinOf(MissingKeys)])

\* AMOUNT and STATUS are missing: the error names AMOUNT
C21_Witness ==
    /\ FromTextReturned
    /\ MissingKeys = {5, 7}
    /\ decoded.res = ParseErrArg("Missing field", K_AMOUNT)

\* the value with one layer of quotes stripped: the first and the last
\* character removed when there are two or more and both are quotes
OneLayerStripped(v) ==
    IF Len(v) >= 2 /\ v[1] = QUOTE /\ v[Len(v)] = QUOTE
    THEN [k \in 1..(Len(v) - 2) |-> v[k + 1]]
    ELSE v

\* C22: from_text returns the DESCRIPTION value with its first and last
\* character removed when the value has two or more characters and both
\* are double quotes, and unchanged otherwise; doubled quotes inside are
\* never collapsed.
C22_TextUnquoteOneLayer ==
    (FromTextReturned /\ MissingKeys = {}) =>
        /\ decoded.res.ok
        /\ decoded.res.val.description = OneLayerStripped(args.fields[K_DESCRIPTION])

\* a quoted value with a doubled quote inside: the doubled quote is kept
C22_Witness ==
    /\ FromTextReturned /\ MissingKeys = {}
    /\ args.fields[K_DESCRIPTION] = <<QUOTE, 97, QUOTE, QUOTE, QUOTE>>
    /\ decoded.res.val.description = <<97, QUOTE, QUOTE>>


\* a decoder returned on a stream of zero bytes that ends without error
EmptyInputDecoded(fn) ==
    StreamDecoded("cut", fn) /\ reader = Cursor(<<>>)

\* C23: from_bin_reader and from_text_reader on a zero-byte stream each
\* return Ok with an empty record sequence, while from_csv_many on an empty
\* list of lines returns the ParseErr 'CSV is empty'.
C23_EmptyInput ==
    /\ EmptyInputDecoded("from_bin_reader") => decoded.res = Ok(<<>>)
    /\ EmptyInputDecoded("from_text_reader") => decoded.res = Ok(<<>>)
    /\ EmptyInputDecoded("from_csv_many") =>
          (Lines(reader.bytes) = <<>> /\ decoded.res = ParseErr("CSV is empty"))

C23_Witness ==
    /\ EmptyInputDecoded("from_csv_many")
    /\ Len(txns) = 2
    /\ decoded.res = ParseErr("CSV is empty")


\* write_to_resource failed to create the destination, to write or to flush
WriteFailed == program = "cli-converter" /\ pc = "done" /\ InLog(WriteFailures)

\* C24: a failure to create the destination, to write the encoded bytes or
\* to flush in write_to_resource is returned as the encode/output kind of
\* error, never as the decode/input kind ParserErr::ParseErr.
C24_OutputFailureKind ==
    WriteFailed => (~result.ok /\ result.err.kind # "ParseErr")

\* the part of C24 that the code keeps: the failure is returned as an error
OutputFailureReturned ==
    WriteFailed => (~result.ok /\ result.err.kind = "ParseErr")


FromTextManyReturned == StreamDecoded("lines", "from_text_many")

\* C26: for every list of lines whose blocks are all valid, from_text_many
\* returns exactly one record per run of key-value lines, in input order:
\* consecutive separator lines (blank, or starting with # after trimming)
\* yield no empty record, a last block that no separator follows is
\* returned, and the text of a # line is in no record.
C26_TextBlockSeparation ==
    FromTextManyReturned =>
        /\ decoded.res.ok
        /\ SameRecords(decoded.res.val, txns)
        /\ \A i \in 1..Len(decoded.res.val) : decoded.res.val[i].format = "YpBankText"

\* two blocks, a blank line and a comment between them, a comment before
\* the first and nothing after the last
C26_Witness ==
    /\ FromTextManyReturned
    /\ Len(txns) = 2 /\ txns[1] # txns[2]
    /\ Len(args.lines) = 19
    /\ args.lines[1] = CommentLine
    /\ args.lines[10] = <<>> /\ args.lines[11] = CommentLine
    /\ Len(decoded.res.val) = 2


\* a decoder returned on an input whose k-th record is the first invalid one
FaultsDecoded(fn) == StreamDecoded("faults", fn)

\* the records up to the first invalid one
UpToInvalid == SubSeq(txns, 1, args.k)

\* what from_text_many returns on the block of the k-th record alone
InvalidBlockAlone == from_text_many(FaultyBlock(txns[args.k], args.fault))

\* the body of the frame of the k-th record
InvalidBody ==
    SubSeq(FaultyFrame(txns[args.k], args.fault), 9, Len(FaultyFrame(txns[args.k], args.fault)))

\* C25: in from_bin_reader, from_csv_reader, from_csv_many and
\* from_text_many, when the k-th record of the input is the first invalid
\* one the call returns an error caused by that record, none of the k-1
\* records decoded before it is returned, and nothing after the k-th record
\* is examined: the result is that of the input that ends with the k-th
\* record.
C25_FailFast ==
    /\ FaultsDecoded("from_bin_reader") =>
          /\ ~decoded.res.ok
          /\ decoded.res = from_bin(InvalidBody)
          /\ decoded.res = from_bin_reader(Cursor(FaultyFrames(UpToInvalid, args.k, args.fault, "none")))
    /\ FaultsDecoded("from_csv_reader") =>
          /\ ~decoded.res.ok
          /\ decoded.res.num = args.k + 1
          /\ decoded.res = from_csv_reader(Cursor(FaultyCsv(UpToInvalid, args.k, args.fault, "none")))
    /\ FaultsDecoded("from_csv_many") =>
          /\ ~decoded.res.ok
          /\ decoded.res.text = "Error parsing line" /\ decoded.res.num = args.k + 1
          /\ decoded.res = from_csv_many(Lines(FaultyCsv(UpToInvalid, args.k, args.fault, "none")))
    /\ FaultsDecoded("from_text_many") =>
          /\ ~decoded.res.ok
          /\ decoded.res.text = InvalidBlockAlone.text /\ decoded.res.arg = InvalidBlockAlone.arg
          /\ decoded.res.num = IF decoded.res.text = "Invalid key-value on line"
                                THEN 9 * (args.k - 1) + InvalidBlockAlone.num
                                ELSE InvalidBlockAlone.num
          /\ decoded.res = from_text_many(FaultyText(UpToInvalid, args.k, args.fault, "none"))

\* the first line decodes, the second has a token that is no tx_type: the
\* error is that of line 3 and the record of the first line is not returned
C25_Witness ==
    /\ FaultsDecoded("from_csv_many")
    /\ args.k = 2
    /\ from_csv(Lines(reader.bytes)[2]).ok
    /\ args.fault = "tx_type"
    /\ ~decoded.res.ok
    /\ decoded.res.num = args.k + 1


\* the tag of the codec of a decode entry point
CodecOf(fn) ==
    CASE fn \in {"from_bin", "from_bin_reader"} -> "YpBankBin"
      [] fn \in {"from_csv", "from_csv_many", "from_csv_reader"} -> "YpBankCsv"
      [] fn \in {"from_text", "from_text_many", "from_text_reader"} -> "YpBankText"

\* the records a decoder returned, those that return one record included
ReturnedRecords ==
    IF decoded.fn \in {"from_bin", "from_csv", "from_text"}
    THEN << decoded.res.val >>
    ELSE decoded.res.val

AllTagged(records, format) == \A i \in 1..Len(records) : records[i].format = format

\* C27: every record returned by a decode entry point carries the tag of
\* the codec that decoded it, whatever the input, so every sequence one
\* dispatch read returns has on all its records the format selector passed.
C27_ProvenanceTag ==
    (program = "lib" /\ pc = "decoded") =>
        /\ decoded.res.ok => AllTagged(ReturnedRecords, CodecOf(decoded.fn))
        /\ reader # NoValue =>
              \A format \in Format :
                 read_from_resource(reader, format).ok =>
                    AllTagged(read_from_resource(reader, format).val, format)

\* a record tagged YpBankBin written as CSV and read by from_csv_many
\* comes back tagged YpBankCsv
C27_Witness ==
    /\ RoundTripDone("to_csv_many", "from_csv_many")
    /\ Len(txns) = 2
    /\ txns[2].format = "YpBankBin"
    /\ decoded.res.ok
    /\ decoded.res.val[2].format = "YpBankCsv"


\* the records with the format field set to `format`, no other field changed
Retagged(records, format) == [i \in DOMAIN records |-> [records[i] EXCEPT !.format = format]]

\* the encoder fn on the records
EncoderOn(fn, records) ==
    CASE fn = "to_bin" -> to_bin(records[1])
      [] fn = "to_csv" -> to_csv(records[1])
      [] fn = "to_text" -> to_text(records[1])
      [] fn = "to_bin_many" -> to_bin_many(records)
      [] fn = "to_csv_many" -> to_csv_many(records)
      [] fn = "to_text_many" -> to_text_many(records)

EncoderReturned == program = "lib" /\ pc = "encoded"

\* C28: for records that differ only in their format field, to_bin, to_csv
\* and to_text (and the three encoders of sequences) return the same
\* output, and no encode operation changes a field of the record it
\* encodes.
C28_EncodingIgnoresTag ==
    /\ [](EncoderReturned =>
            \A format \in Format : EncoderOn(encoded.fn, Retagged(txns, format)) = encoded.res)
    /\ [][(pc = "input" /\ pc' = "encoded") => txns' = txns]_vars

\* to_csv returned on a record tagged YpBankCsv whose description needs
\* escaping; the record tagged YpBankBin gives the same line
C28_Witness ==
    /\ EncoderReturned
    /\ encoded.fn = "to_csv"
    /\ txns[1].format = "YpBankCsv"
    /\ Contains(txns[1].description, QUOTE)
    /\ to_csv([txns[1] EXCEPT !.format = "YpBankBin"]) = encoded.res


\* both resources decoded to the empty sequence
BothEmpty == ComparerReturned /\ result.ok /\ first_txn = <<>> /\ second_txn = <<>>

\* C29: when both resources decode to the empty sequence,
\* process_comparer_logic returns result true even if the two format
\* selectors differ; the provenance tag makes two decoded sequences of the
\* same logical records unequal only when they are not empty.
C29_EmptySetsEqual ==
    /\ BothEmpty => result.result = TRUE
    /\ (ComparerReturned /\ result.ok /\ SameLogicalRecords /\ result.result = FALSE)
          => Len(first_txn) > 0

\* a zero-byte file read as YpBankBin against a zero-byte file read as
\* YpBankText
C29_Witness ==
    /\ BothEmpty
    /\ args.first_format = "YpBankBin" /\ args.second_format = "YpBankText"
    /\ fs["in"].bytes = <<>> /\ fs["in2"].bytes = <<>>
    /\ result.result = TRUE


\* the frame of a body: the magic, the length of the body, the body
FrameOfBody(body) == BIN_MAGIC \o BEBytes(Len(body), 4) \o body

\* from_bin returned on a body with bytes after the description
SurplusDecoded == StreamDecoded("surplus", "from_bin")

\* C30: for every body whose length is greater than 46 + description_len,
\* from_bin succeeds and returns the record of the leading fields, the
\* bytes after the description ignored; to_bin of the record it returns is
\* the original frame only when the body has no surplus bytes.
C30_SurplusBytesIgnored ==
    /\ SurplusDecoded =>
          /\ Len(reader.bytes) > 46 + BEValue(reader.bytes, 43, 4)
          /\ decoded.res.ok
          /\ SameSemantic(decoded.res.val, txns[1])
          /\ to_bin(decoded.res.val).val = to_bin(txns[1]).val
          /\ to_bin(decoded.res.val).val # FrameOfBody(reader.bytes)
    /\ (StreamDecoded("body", "from_bin") /\ decoded.res.ok) =>
          /\ Len(reader.bytes) = 46 + BEValue(reader.bytes, 43, 4)
          /\ to_bin(decoded.res.val).val = FrameOfBody(reader.bytes)

\* four surplus bytes (a magic) after a description of four bytes
C30_Witness ==
    /\ SurplusDecoded
    /\ Len(txns[1].description) = 4
    /\ Len(reader.bytes) = 54
    /\ decoded.res.ok
    /\ decoded.res.val.description = txns[1].description


====
